------------------------- MODULE FullTableCopyProofs -------------------------
(***************************************************************************)
(* What holds of FullTableCopy for any table, batch size and STATE period, *)
(* any transactions and any crashes: types for all transaction ids, and,   *)
(* for ids whose text orders as their numbers do, that the watermark is    *)
(* backed, that an activated version is complete and that its activation   *)
(* discards nothing the table still has.                                   *)
(***************************************************************************)
EXTENDS FullTableCopy, FiniteSetTheorems, SequenceTheorems, TLAPS

\* Text and number agree, as they do for ids of the same length.
Ordered == \A x, y \in Xids : x < y => TextBefore(x, y)

-----------------------------------------------------------------------------
(***************************************************************************)
(* The inductive invariant, in two parts.  The first holds whatever the    *)
(* order of ids: types, the versions of messages, and that what the tap    *)
(* has read of a row of base is that row.                                  *)
(***************************************************************************)

IsData(m) == m.type \in {"RECORD", "BATCH"}

Committed(x)  == x < nextXid /\ x \notin open
Settled(rows) == \A c \in rows : Committed(c.xid)
Agrees(rows)  == \A c \in base, d \in rows : d.row = c.row => d = c

Watermark == Xids \cup {None}

TableOK ==
    /\ table \in [Rows -> Watermark]
    /\ nextXid \in FirstXid .. MaxXid + 1
    /\ open \subseteq FirstXid .. nextXid - 1
    /\ \A r \in Rows : table[r] # None => Committed(table[r])
    /\ base \subseteq RowVersion
    /\ clock \in 0 .. MaxVersions
    /\ crashes \in 0 .. MaxCrashes

ProcessOK ==
    /\ copying \in BOOLEAN /\ batch_mode \in BOOLEAN
    /\ version \in 0 .. clock /\ xmin \in Watermark
    /\ cursor \subseteq RowVersion
    /\ buffer \subseteq RowVersion /\ Cardinality(buffer) < batch_size
    /\ rows_saved \in 0 .. STATE_UPDATE_PERIOD - 1
    /\ ~batch_mode => buffer = {}
    /\ ~copying => buffer = {} /\ cursor = {}
    /\ Settled(cursor) /\ Settled(buffer)
    /\ Agrees(cursor) /\ Agrees(buffer)

\* What is known of a message on its way.
MessageOK(m) ==
    /\ m.version \in 0 .. clock
    /\ m.type = "STATE" => m.xmin \in Watermark
    /\ IsData(m) => Settled(m.rows) /\ Agrees(m.rows)
    /\ m.type = "ACTIVATE_VERSION" => m.covers \in {{}, base}
    /\ m.type = "BATCH" => m.version = None

DownstreamOK ==
    /\ pipe \in Seq(MessageType)
    /\ \A i \in 1 .. Len(pipe) : MessageOK(pipe[i])
    /\ file \in [version : 0 .. clock, xmin : Watermark]
    /\ target \in [Rows -> [xid : Watermark, version : Nat]]
    /\ \A r \in Rows : target[r].xid # None => Committed(target[r].xid)

\* What the target has of the table's rows is of version v, or has no
\* version, or a row of base.
Accounted(v) ==
    \A r \in Rows : table[r] # None /\ target[r].xid = table[r] =>
        target[r].version \in {None, v} \/ [row |-> r, xid |-> table[r]] \in base

\* Version v is the one in use: the run's, the pipe's, and the one in the state
\* file if a watermark stands by it.
InUse(v) ==
    /\ copying => version = v
    /\ \A i \in 1 .. Len(pipe) : pipe[i].type # "BATCH" => pipe[i].version = v
    /\ file.xmin # None => file.version = v

VersionOK == \E v \in 0 .. clock : InUse(v) /\ (copying \/ pipe # << >> \/ file.xmin # None => Accounted(v))

TypeInv == TableOK /\ ProcessOK /\ DownstreamOK /\ VersionOK

-----------------------------------------------------------------------------
(***************************************************************************)
(* The second part follows the rows of base from the cursor to the target. *)
(***************************************************************************)

Carries(m, c, v) == IsData(m) /\ c \in m.rows /\ m.version \in {v, None}

\* Row c has reached the target, or is in one of the first n messages.
Reached(c, v, n) == InTarget(c, v) \/ \E j \in 1 .. n : Carries(pipe[j], c, v)

\* The rows of base that a message answers for.
Claims(m) ==
    {c \in base : \/ m.type = "STATE" /\ m.xmin # None /\ c.xid < m.xmin
                  \/ m.type = "ACTIVATE_VERSION" /\ c \in m.covers}

OrderOK  == \A c \in cursor : xmin <= c.xid
CoverOK  == copying => \A c \in base : c \in cursor \cup buffer \/ Reached(c, version, Len(pipe))
FileOK   == \A c \in base : file.xmin # None /\ c.xid < file.xmin => InTarget(c, file.version)
ClaimsOK == \A i \in 1 .. Len(pipe) : \A c \in Claims(pipe[i]) : Reached(c, pipe[i].version, i - 1)

BackedInv == OrderOK /\ CoverOK /\ FileOK /\ ClaimsOK

-----------------------------------------------------------------------------
(***************************************************************************)
(* Facts about sequences, finite sets and the order of ids.                *)
(***************************************************************************)

LEMMA Appended ==
    ASSUME NEW S, NEW p \in Seq(S), NEW q \in Seq(S)
    PROVE  /\ p \o q \in Seq(S) /\ Len(p \o q) = Len(p) + Len(q)
           /\ Len(p) \in Nat /\ Len(q) \in Nat
           /\ \A i \in 1 .. Len(p) : (p \o q)[i] = p[i]
           /\ \A i \in 1 .. Len(q) : (p \o q)[Len(p) + i] = q[i]
           /\ \A i \in 1 .. Len(p \o q) : i \in 1 .. Len(p)
                  \/ (i - Len(p) \in 1 .. Len(q) /\ (p \o q)[i] = q[i - Len(p)])
OBVIOUS

LEMMA XidType ==
    /\ Watermark \subseteq Nat /\ Xids \subseteq Nat \ {0} /\ None \in Watermark
    /\ FirstXid \in Nat /\ MaxXid \in Nat
<1>1. FirstXid \in Nat \ {0} /\ MaxXid \in FirstXid .. 99
  BY SizesAssumption, CopyBoundsAssumption
<1> QED BY <1>1 DEF Watermark, Xids, None

LEMMA RowVersionFinite == IsFiniteSet(RowVersion)
<1> DEFINE P == Rows \X Xids
           f == [p \in P |-> [row |-> p[1], xid |-> p[2]]]
<1>1. IsFiniteSet(P)
  <2>1. IsFiniteSet(Xids)
    BY XidType, FS_Interval DEF Xids
  <2> QED BY <2>1, RowsAssumption, FS_Product
<1>2. f \in Surjection(P, RowVersion)
  <2>1. f \in [P -> RowVersion]
    BY DEF RowVersion
  <2>2. ASSUME NEW c \in RowVersion PROVE \E p \in P : f[p] = c
    <3>1. <<c.row, c.xid>> \in P /\ f[<<c.row, c.xid>>] = c
      BY DEF RowVersion
    <3> QED BY <3>1
  <2> HIDE DEF f, P
  <2> QED BY <2>1, <2>2 DEF Surjection
<1> HIDE DEF f, P
<1> QED BY <1>1, <1>2, FS_Surjection

LEMMA FewRows ==
    ASSUME NEW rows \in SUBSET RowVersion
    PROVE  IsFiniteSet(rows) /\ Cardinality(rows) \in Nat
BY RowVersionFinite, FS_Subset, FS_CardinalityType

LEMMA NoRows == Cardinality({}) = 0 /\ 0 < batch_size /\ batch_size \in Nat
BY SizesAssumption, FS_EmptySet

\* Ids of one length are ordered by their text as by their number.
LEMMA SameLength == FirstXid >= 10 \/ MaxXid < 10 => Ordered
<1> SUFFICES ASSUME FirstXid >= 10 \/ MaxXid < 10, NEW x \in Xids, NEW y \in Xids, x < y
             PROVE  TextBefore(x, y)
  BY DEF Ordered
<1>1. x \in Nat /\ y \in Nat /\ ((x >= 10 /\ y >= 10) \/ (x < 10 /\ y < 10))
  BY XidType DEF Xids
<1>2. x \div 10 <= y \div 10 /\ x \div 10 \in Int /\ y \div 10 \in Int
  BY <1>1
<1> QED BY <1>1, <1>2 DEF TextBefore

\* What a step leaves alone.
LEMMA SameMessages ==
    ASSUME UNCHANGED <<nextXid, open, base, clock>>, NEW m, MessageOK(m)
    PROVE  MessageOK(m)'
BY DEF MessageOK, IsData, Settled, Committed, Agrees

-----------------------------------------------------------------------------
(***************************************************************************)
(* The initial states and the database.                                    *)
(***************************************************************************)

LEMMA InitInv == Init => TypeInv /\ BackedInv
<1> SUFFICES ASSUME Init PROVE TypeInv /\ BackedInv
  OBVIOUS
<1>1. pipe = << >> /\ Len(pipe) = 0 /\ pipe \in Seq(MessageType)
  BY DEF Init
<1>2. TableOK
  <2>1. nextXid \in FirstXid .. MaxXid + 1 /\ clock \in 0 .. MaxVersions /\ crashes \in 0 .. MaxCrashes
    BY SizesAssumption, CopyBoundsAssumption DEF Init
  <2> QED BY <2>1, XidType DEF Init, TableOK
<1>3. ProcessOK
  <2>1. Cardinality(buffer) < batch_size
    BY NoRows DEF Init
  <2>2. rows_saved \in 0 .. STATE_UPDATE_PERIOD - 1
    BY SizesAssumption DEF Init
  <2>3. copying \in BOOLEAN /\ batch_mode \in BOOLEAN
    <3>1. copying = FALSE /\ batch_mode = FALSE
      BY DEF Init
    <3> QED BY <3>1
  <2>4. version \in 0 .. clock
    BY DEF Init, None
  <2> QED BY <2>1, <2>2, <2>3, <2>4, XidType DEF Init, ProcessOK, Settled, Agrees
<1>4. DownstreamOK
  BY <1>1, XidType DEF Init, DownstreamOK, None
<1>5. VersionOK
  <2>1. InUse(0) /\ 0 \in 0 .. clock
    BY <1>1 DEF Init, InUse
  <2> QED BY <2>1 DEF Init, VersionOK
<1>6. BackedInv
  BY <1>1 DEF Init, BackedInv, OrderOK, CoverOK, FileOK, ClaimsOK
<1> QED BY <1>2, <1>3, <1>4, <1>5, <1>6 DEF TypeInv

\* A transaction that begins, and one that commits, takes nothing back.
LEMMA DatabaseTypes ==
    ASSUME TypeInv, BeginTransaction \/ CommitTransaction
    PROVE  TypeInv'
<1>1. /\ UNCHANGED <<copying, batch_mode, version, xmin, cursor, buffer, rows_saved, pipe, file,
                     target, base, clock, crashes>>
  BY DEF BeginTransaction, CommitTransaction, process, downstream
<1>2. /\ nextXid \in Nat /\ nextXid' \in FirstXid .. MaxXid + 1 /\ nextXid <= nextXid'
      /\ open \subseteq FirstXid .. nextXid - 1 /\ open' \subseteq FirstXid .. nextXid' - 1
      /\ open' \subseteq open \cup {nextXid}
  <2>1. nextXid \in FirstXid .. MaxXid + 1 /\ open \subseteq FirstXid .. nextXid - 1
    BY DEF TypeInv, TableOK
  <2>2. CASE BeginTransaction
    BY <2>1, <2>2, XidType DEF BeginTransaction
  <2>3. CASE CommitTransaction
    BY <2>1, <2>3, XidType DEF CommitTransaction
  <2> QED BY <2>2, <2>3
<1>3. \A x \in Nat : Committed(x) => Committed(x)'
  BY <1>2 DEF Committed
<1>4. ASSUME NEW rows \in SUBSET RowVersion, Settled(rows) PROVE Settled(rows)'
  <2>1. \A c \in rows : c.xid \in Nat
    BY XidType DEF RowVersion
  <2> QED BY <1>3, <1>4, <2>1 DEF Settled
<1>5. /\ table' \in [Rows -> Watermark]
      /\ \A r \in Rows : table'[r] # table[r] =>
             table'[r] \in open /\ table'[r] \notin open' /\ table'[r] < nextXid'
  <2>1. CASE BeginTransaction
    BY <2>1 DEF BeginTransaction, TypeInv, TableOK
  <2>2. CASE CommitTransaction
    <3>1. PICK x \in open, changed \in SUBSET Rows :
              /\ table' = [r \in Rows |-> IF r \in changed THEN x ELSE table[r]]
              /\ open' = open \ {x}
      BY <2>2 DEF CommitTransaction
    <3>2. x \in Xids /\ x < nextXid'
      BY <1>2, XidType DEF TypeInv, TableOK, Xids
    <3>3. table \in [Rows -> Watermark] /\ x \in Watermark
      BY <3>2 DEF TypeInv, TableOK, Watermark
    <3> QED BY <3>1, <3>2, <3>3
  <2> QED BY <2>1, <2>2
<1>6. TableOK'
  <2>1. ASSUME NEW r \in Rows, table'[r] # None
        PROVE  table'[r] < nextXid' /\ table'[r] \notin open'
    <3>1. CASE table'[r] = table[r]
      <4>1. table[r] \in Nat
        BY XidType DEF TypeInv, TableOK
      <4>2. Committed(table[r])
        BY <2>1, <3>1 DEF TypeInv, TableOK
      <4> QED BY <1>3, <3>1, <4>1, <4>2 DEF Committed
    <3>2. CASE table'[r] # table[r]
      BY <1>5, <3>2
    <3> QED BY <3>1, <3>2
  <2> QED BY <1>1, <1>2, <1>5, <2>1 DEF TypeInv, TableOK, Committed
<1>7. ProcessOK'
  BY <1>1, <1>4 DEF TypeInv, ProcessOK, Agrees
<1>8. DownstreamOK'
  <2>1. \A i \in 1 .. Len(pipe) : IsData(pipe[i]) => pipe[i].rows \in SUBSET RowVersion
    <3>1. \A i \in 1 .. Len(pipe) : pipe[i] \in MessageType
      BY DEF TypeInv, DownstreamOK
    <3>2. \A m \in MessageType : IsData(m) => m.rows \in SUBSET RowVersion
      BY DEF MessageType, IsData
    <3> QED BY <3>1, <3>2
  <2>2. \A i \in 1 .. Len(pipe) : MessageOK(pipe[i])'
    BY <1>1, <1>4, <2>1 DEF TypeInv, DownstreamOK, MessageOK, IsData, Agrees
  <2>3. \A r \in Rows : target[r].xid # None => Committed(target[r].xid)'
    <3>1. \A r \in Rows : target[r].xid \in Nat
      <4>1. \A r \in Rows : target[r].xid \in Watermark
        BY DEF TypeInv, DownstreamOK
      <4> QED BY <4>1, XidType
    <3> QED BY <1>1, <1>3, <3>1 DEF TypeInv, DownstreamOK
  <2> QED BY <1>1, <2>2, <2>3 DEF TypeInv, DownstreamOK
<1>9. VersionOK'
  <2>1. PICK v \in 0 .. clock :
            InUse(v) /\ (copying \/ pipe # << >> \/ file.xmin # None => Accounted(v))
    BY DEF TypeInv, VersionOK
  <2>2. ASSUME Accounted(v) PROVE Accounted(v)'
    <3> SUFFICES ASSUME NEW r \in Rows, table'[r] # None, target[r].xid = table'[r]
                 PROVE  \/ target[r].version \in {None, v}
                        \/ [row |-> r, xid |-> table'[r]] \in base
      BY <1>1 DEF Accounted
    <3>1. table'[r] = table[r]
      BY <1>5 DEF TypeInv, DownstreamOK, Committed
    <3> QED BY <2>2, <3>1 DEF Accounted
  <2> QED BY <1>1, <2>1, <2>2 DEF VersionOK, InUse
<1> QED BY <1>6, <1>7, <1>8, <1>9 DEF TypeInv

LEMMA DatabaseBacked ==
    ASSUME BackedInv, BeginTransaction \/ CommitTransaction
    PROVE  BackedInv'
<1>1. UNCHANGED <<copying, version, xmin, cursor, buffer, pipe, file, target, base>>
  BY DEF BeginTransaction, CommitTransaction, process, downstream
<1> QED BY <1>1 DEF BackedInv, OrderOK, CoverOK, FileOK, ClaimsOK, Claims, Reached, Carries, IsData,
                    InTarget

-----------------------------------------------------------------------------
(***************************************************************************)
(* The start of a copy.                                                    *)
(***************************************************************************)

\* A query returns rows as they are.
LEMMA QueryOf ==
    ASSUME TableOK, NEW w \in Watermark
    PROVE  /\ QueryRows(w) \subseteq RowVersion /\ Settled(QueryRows(w))
           /\ \A c \in QueryRows(w) : c.xid = table[c.row] /\ w <= c.xid
           /\ \A c \in RowVersion : c.xid = table[c.row] /\ w <= c.xid => c \in QueryRows(w)
<1>1. ASSUME NEW c \in QueryRows(w)
      PROVE  c \in RowVersion /\ c.xid = table[c.row] /\ w <= c.xid /\ Committed(c.xid)
  <2>1. PICK r \in Rows : /\ table[r] # None /\ table[r] >= w /\ c = [row |-> r, xid |-> table[r]]
    BY DEF QueryRows
  <2>2. table[r] \in Xids /\ Committed(table[r])
    BY <2>1 DEF TableOK, Watermark
  <2>3. table[r] \in Nat /\ w \in Nat
    BY <2>2, XidType
  <2> QED BY <2>1, <2>2, <2>3 DEF RowVersion
<1>2. ASSUME NEW c \in RowVersion, c.xid = table[c.row], w <= c.xid
      PROVE  c \in QueryRows(w)
  <2>1. c.row \in Rows /\ c.xid \in Xids /\ c = [row |-> c.row, xid |-> c.xid]
    BY DEF RowVersion
  <2>2. c.xid # None /\ c.xid \in Nat /\ w \in Nat
    BY <2>1, XidType DEF None
  <2> QED BY <1>2, <2>1, <2>2 DEF QueryRows
<1> QED BY <1>1, <1>2 DEF Settled

LEMMA StartOf ==
    ASSUME TypeInv, StartCopy
    PROVE  /\ UNCHANGED <<table, nextXid, open, rows_saved, file, target, crashes>>
           /\ ~copying /\ pipe = << >> /\ buffer = {} /\ buffer' = {}
           /\ copying' = TRUE /\ batch_mode' \in BOOLEAN /\ xmin' = file.xmin
           /\ file.version \in Nat /\ clock \in Nat /\ MaxVersions \in Nat /\ xmin' \in Watermark
           /\ version' \in 0 .. clock' /\ clock <= clock' /\ clock' \in 0 .. MaxVersions
           /\ file.xmin # None => version' = file.version
           /\ cursor' = QueryRows(file.xmin)
           /\ base' = IF file.xmin # None THEN Unchanged(base) ELSE QueryRows(None)
           /\ base' \subseteq RowVersion /\ \A c \in base' : c.xid = table[c.row]
           /\ pipe' \in Seq(MessageType) /\ Len(pipe') \in Nat \ {0}
           /\ \A i \in 1 .. Len(pipe') :
                  \/ pipe'[i] = State(version', file.xmin)
                  \/ pipe'[i] = Activate(version', {})
<1>1. /\ UNCHANGED <<table, nextXid, open, buffer, rows_saved, file, target, crashes>>
      /\ ~copying /\ pipe = << >> /\ copying' = TRUE /\ batch_mode' \in Modes
      /\ xmin' = file.xmin /\ cursor' = QueryRows(file.xmin) /\ version' = PickVersion(file)
      /\ clock' = IF version' > clock THEN version' ELSE clock
      /\ file.xmin # None \/ clock < MaxVersions
      /\ base' = IF file.xmin # None THEN Unchanged(base) ELSE QueryRows(None)
      /\ pipe' = << State(version', file.xmin) >>
                     \o IF file.version = None THEN << Activate(version', {}) >> ELSE << >>
  BY DEF StartCopy, database
<1>2. buffer = {} /\ batch_mode' \in BOOLEAN
  BY <1>1, ModesAssumption DEF TypeInv, ProcessOK
<1>3. /\ file.version \in 0 .. clock /\ file.xmin \in Watermark /\ clock \in 0 .. MaxVersions
      /\ MaxVersions \in Nat
  BY CopyBoundsAssumption DEF TypeInv, DownstreamOK, TableOK
<1>4. /\ version' \in 0 .. clock' /\ clock <= clock' /\ clock' \in 0 .. MaxVersions
      /\ file.xmin # None => version' = file.version
  BY <1>1, <1>3 DEF PickVersion
<1>5. base' \subseteq RowVersion /\ \A c \in base' : c.xid = table[c.row]
  <2>1. CASE file.xmin # None
    BY <1>1, <2>1 DEF Unchanged, TypeInv, TableOK
  <2>2. CASE file.xmin = None
    BY <1>1, <2>2, XidType, QueryOf DEF TypeInv
  <2> QED BY <2>1, <2>2
<1> DEFINE st == State(version', file.xmin)
           a  == Activate(version', {})
<1>6. st \in MessageType /\ a \in MessageType
  <2>1. version' \in Nat /\ file.xmin \in Nat
    <3>1. version' \in Nat
      BY <1>4
    <3>2. file.xmin \in Nat
      BY <1>3, XidType
    <3> QED BY <3>1, <3>2
  <2>2. {} \in SUBSET RowVersion
    OBVIOUS
  <2> QED BY <2>1, <2>2 DEF State, Activate, MessageType
<1> HIDE DEF st, a
<1>7. /\ pipe' \in Seq(MessageType) /\ Len(pipe') \in Nat \ {0}
      /\ \A i \in 1 .. Len(pipe') : pipe'[i] = st \/ pipe'[i] = a
  <2>1. << st >> \in Seq(MessageType) /\ Len(<< st >>) = 1 /\ << st >>[1] = st
    BY <1>6
  <2>2. CASE file.version = None
    <3>1. pipe' = << st >> \o << a >>
      BY <1>1, <2>2 DEF st, a
    <3>2. << a >> \in Seq(MessageType) /\ Len(<< a >>) = 1 /\ << a >>[1] = a
      BY <1>6
    <3> QED BY <2>1, <3>1, <3>2, Appended
  <2>3. CASE file.version # None
    <3>1. pipe' = << st >>
      BY <1>1, <2>1, <2>3, ConcatEmptySeq DEF st
    <3> QED BY <2>1, <3>1
  <2> QED BY <2>2, <2>3
<1> QED BY <1>1, <1>2, <1>3, <1>4, <1>5, <1>7 DEF st, a

LEMMA StartCopyTypes == ASSUME TypeInv, StartCopy PROVE TypeInv'
<1>1. TableOK'
  <2>1. base' \subseteq RowVersion /\ clock' \in 0 .. MaxVersions
    BY StartOf
  <2> QED BY <2>1, StartOf DEF TypeInv, TableOK, Committed
<1>2. ProcessOK'
  <2>1. /\ cursor' \subseteq RowVersion /\ Settled(cursor)'
        /\ \A d \in cursor' : d.xid = table[d.row]
    <3>1. cursor' = QueryRows(file.xmin) /\ file.xmin \in Watermark
      BY StartOf
    <3>2. /\ cursor' \subseteq RowVersion /\ Settled(QueryRows(file.xmin))
          /\ \A d \in cursor' : d.xid = table[d.row]
      BY <3>1, QueryOf DEF TypeInv
    <3> QED BY <3>1, <3>2, StartOf DEF Settled, Committed
  <2>2. ASSUME NEW c \in base', NEW d \in cursor', d.row = c.row PROVE d = c
    <3>1. c \in RowVersion /\ d \in RowVersion /\ c.xid = d.xid
      BY <2>1, <2>2, StartOf
    <3> QED BY <2>2, <3>1 DEF RowVersion
  <2>3. Cardinality(buffer') < batch_size
    BY StartOf, NoRows
  <2> QED BY <2>1, <2>2, <2>3, StartOf DEF TypeInv, ProcessOK, Settled, Agrees
<1>3. DownstreamOK'
  <2>1. \A i \in 1 .. Len(pipe') : MessageOK(pipe[i])'
    BY StartOf DEF MessageOK, State, Activate, IsData
  <2>2. file' \in [version : 0 .. clock', xmin : Watermark]
    <3>1. file' = file /\ 0 .. clock \subseteq 0 .. clock'
      BY StartOf
    <3> QED BY <3>1 DEF TypeInv, DownstreamOK
  <2>3. \A r \in Rows : target'[r].xid # None => Committed(target[r].xid)'
    BY StartOf DEF TypeInv, DownstreamOK, Committed
  <2> QED BY <2>1, <2>2, <2>3, StartOf DEF TypeInv, DownstreamOK
<1>4. VersionOK'
  <2> SUFFICES ASSUME NEW v, v = version' PROVE InUse(v)' /\ Accounted(v)'
    BY StartOf DEF VersionOK
  <2>1. InUse(v)'
    BY StartOf DEF InUse, State, Activate
  <2>2. ASSUME NEW r \in Rows, table[r] # None, target[r].xid = table[r]
        PROVE  \/ target[r].version \in {None, v}
               \/ [row |-> r, xid |-> table[r]] \in base'
    <3> DEFINE c == [row |-> r, xid |-> table[r]]
    <3>1. table[r] \in Xids
      BY <2>2 DEF TypeInv, TableOK, Watermark
    <3>2. c \in RowVersion /\ c.xid = table[c.row] /\ None <= c.xid
      <4>1. table[r] \in Nat
        BY <3>1, XidType
      <4> QED BY <3>1, <4>1 DEF RowVersion, None
    <3>3. CASE file.xmin # None
      <4>1. target[r].version \in {None, file.version} \/ c \in base
        BY <2>2, <3>3 DEF TypeInv, VersionOK, InUse, Accounted
      <4>2. c \in base => c \in base'
        BY <3>3, StartOf DEF Unchanged
      <4> QED BY <3>3, <4>1, <4>2, StartOf
    <3>4. CASE file.xmin = None
      <4>1. c \in QueryRows(None)
        BY <3>2, XidType, QueryOf DEF TypeInv
      <4> QED BY <3>4, <4>1, StartOf
    <3> QED BY <3>3, <3>4
  <2>3. Accounted(v)'
    BY <2>2, StartOf DEF Accounted
  <2> QED BY <2>1, <2>3
<1> QED BY <1>1, <1>2, <1>3, <1>4 DEF TypeInv

\* The rows below the watermark are in the target, all others in the query.
LEMMA StartCopyBacked == ASSUME TypeInv, BackedInv, StartCopy PROVE BackedInv'
<1> PICK v : v = version'
  OBVIOUS
<1>1. /\ file.xmin \in Watermark /\ file' = file /\ target' = target
      /\ file.xmin \in Nat
  BY StartOf, XidType
<1>2. ASSUME NEW c \in base'
      PROVE  c \in RowVersion /\ c.xid = table[c.row] /\ c.xid \in Nat
  <2>1. c \in RowVersion /\ c.xid = table[c.row]
    BY StartOf
  <2> QED BY <2>1, XidType DEF RowVersion
<1>3. ASSUME NEW c \in base', c.xid < file.xmin
      PROVE  InTarget(c, v)
  <2>1. file.xmin # None
    BY <1>1, <1>2, <1>3 DEF None
  <2>2. c \in base
    BY <2>1, StartOf DEF Unchanged
  <2>3. InTarget(c, file.version)
    BY <1>3, <2>1, <2>2 DEF BackedInv, FileOK
  <2> QED BY <2>1, <2>3, StartOf
<1>4. \A c : InTarget(c, v)' <=> InTarget(c, v)
  BY <1>1 DEF InTarget
<1>5. OrderOK'
  BY <1>1, StartOf, QueryOf DEF TypeInv, OrderOK
<1>6. CoverOK'
  <2>1. ASSUME NEW c \in base' PROVE c \in cursor' \/ InTarget(c, v)
    <3>1. CASE file.xmin <= c.xid
      BY <1>1, <1>2, <3>1, StartOf, QueryOf DEF TypeInv
    <3>2. CASE c.xid < file.xmin
      BY <1>3, <3>2
    <3> QED BY <1>1, <1>2, <3>1, <3>2
  <2> QED BY <1>1, <2>1 DEF CoverOK, Reached, InTarget
<1>7. FileOK'
  <2>1. file.xmin # None => v = file.version
    BY StartOf
  <2> QED BY <1>1, <1>3, <2>1 DEF FileOK, InTarget
<1>8. ClaimsOK'
  <2>1. ASSUME NEW i \in 1 .. Len(pipe'), NEW c \in Claims(pipe[i])'
        PROVE  c \in base' /\ c.xid < file.xmin /\ pipe'[i].version = v
    BY <2>1, StartOf DEF Claims, State, Activate
  <2>2. ASSUME NEW i \in 1 .. Len(pipe'), NEW c \in Claims(pipe[i])'
        PROVE  target'[c.row].xid = c.xid /\ target'[c.row].version \in {pipe'[i].version, None}
    BY <1>1, <1>3, <2>1, <2>2 DEF InTarget
  <2> QED BY <2>2 DEF ClaimsOK, Reached, InTarget
<1> QED BY <1>5, <1>6, <1>7, <1>8 DEF BackedInv

-----------------------------------------------------------------------------
(***************************************************************************)
(* The steps of a copy.  Each appends messages, more, that carry the rows  *)
(* at hand, and leaves the rest in the cursor and the buffer.              *)
(***************************************************************************)

Sent(m, hand) ==
    /\ IsData(m) => m.rows \subseteq hand
    /\ m.version = IF m.type = "BATCH" THEN None ELSE version
    /\ m.type = "STATE" => m.xmin \in Watermark
    /\ m.type = "ACTIVATE_VERSION" => m.covers = base

\* No message claims a row of the rest.
Spares(m, rest) ==
    /\ m.type = "STATE" => \A d \in rest : m.xmin <= d.xid
    /\ m.type = "ACTIVATE_VERSION" => rest = {}

\* A message that claims comes after all rows at hand.
AfterRows(more, hand, i) ==
    ~IsData(more[i]) => \A c \in hand : \E j \in 1 .. i - 1 : IsData(more[j]) /\ c \in more[j].rows

Delivers(more, hand) ==
    /\ more \in Seq(MessageType)
    /\ \A i \in 1 .. Len(more) : Sent(more[i], hand) /\ AfterRows(more, hand, i)
    /\ \A c \in hand : \E j \in 1 .. Len(more) : IsData(more[j]) /\ c \in more[j].rows

\* The state of the process stays well-formed.
StaysOK ==
    /\ UNCHANGED <<table, nextXid, open, file, target, base, clock, crashes>>
    /\ copying' \in BOOLEAN /\ batch_mode' \in BOOLEAN
    /\ version' \in 0 .. clock /\ xmin' \in Watermark
    /\ copying' => version' = version
    /\ rows_saved' \in 0 .. STATE_UPDATE_PERIOD - 1
    /\ Cardinality(buffer') < batch_size
    /\ ~batch_mode' => buffer' = {}
    /\ ~copying' => buffer' = {} /\ cursor' = {}
    /\ cursor' \subseteq cursor \cup buffer /\ buffer' \subseteq cursor \cup buffer

LEMMA ProgressTypes ==
    ASSUME TypeInv, copying, StaysOK,
           NEW hand \in SUBSET (cursor \cup buffer), NEW more, Delivers(more, hand),
           pipe' = pipe \o more
    PROVE  TypeInv'
<1>1. UNCHANGED <<table, nextXid, open, file, target, base, clock, crashes>>
  BY DEF StaysOK
<1>2. ASSUME NEW rows \in SUBSET (cursor \cup buffer)
      PROVE  rows \subseteq RowVersion /\ Settled(rows) /\ Agrees(rows)
  BY DEF TypeInv, ProcessOK, Settled, Agrees
<1>3. \A rows : /\ Settled(rows) <=> \A c \in rows : c.xid < nextXid' /\ c.xid \notin open'
               /\ Agrees(rows) <=> \A c \in base', d \in rows : d.row = c.row => d = c
  BY <1>1 DEF Settled, Committed, Agrees
<1>4. TableOK'
  BY <1>1 DEF TypeInv, TableOK, Committed
<1>5. ProcessOK'
  <2>1. /\ cursor' \subseteq RowVersion /\ Settled(cursor') /\ Agrees(cursor')
        /\ buffer' \subseteq RowVersion /\ Settled(buffer') /\ Agrees(buffer')
    BY <1>2 DEF StaysOK
  <2>2. ASSUME NEW rows \in {cursor', buffer'}
        PROVE  /\ \A c \in rows : c.xid < nextXid' /\ c.xid \notin open'
               /\ \A c \in base', d \in rows : d.row = c.row => d = c
    <3>1. Settled(rows) /\ Agrees(rows)
      BY <2>1
    <3> QED BY <1>1, <3>1 DEF Settled, Committed, Agrees
  <2>3. Settled(cursor)' /\ Agrees(cursor)' /\ Settled(buffer)' /\ Agrees(buffer)'
    BY <2>2 DEF Settled, Committed, Agrees
  <2> QED BY <1>1, <2>1, <2>3 DEF StaysOK, ProcessOK
<1>6. /\ pipe' \in Seq(MessageType)
      /\ \A i \in 1 .. Len(pipe') : \/ i \in 1 .. Len(pipe) /\ pipe'[i] = pipe[i]
                                   \/ \E k \in 1 .. Len(more) : pipe'[i] = more[k]
  <2>1. pipe \in Seq(MessageType) /\ more \in Seq(MessageType)
    BY DEF TypeInv, DownstreamOK, Delivers
  <2> QED BY <2>1, Appended
<1>7. version \in 0 .. clock /\ 0 \in 0 .. clock
  <2>1. version \in 0 .. clock /\ clock \in 0 .. MaxVersions
    BY DEF TypeInv, ProcessOK, TableOK
  <2> QED BY <2>1
<1>8. ASSUME NEW m, Sent(m, hand) PROVE MessageOK(m)
  <2>1. m.version \in 0 .. clock
    BY <1>7, <1>8 DEF Sent, None
  <2>2. IsData(m) => Settled(m.rows) /\ Agrees(m.rows)
    BY <1>2, <1>8 DEF Sent
  <2>3. m.type = "BATCH" => m.version = None
    BY <1>8 DEF Sent
  <2> QED BY <1>8, <2>1, <2>2, <2>3 DEF MessageOK, Sent
<1>9. DownstreamOK'
  <2>1. \A i \in 1 .. Len(pipe') : MessageOK(pipe'[i])
    BY <1>6, <1>8 DEF TypeInv, DownstreamOK, Delivers
  <2>2. \A i \in 1 .. Len(pipe') : MessageOK(pipe[i])'
    BY <1>1, <1>3, <2>1 DEF MessageOK, IsData, Settled, Committed, Agrees
  <2> QED BY <1>1, <1>6, <2>2 DEF TypeInv, DownstreamOK, Committed
<1>10. VersionOK'
  <2> PICK v : v = version
    OBVIOUS
  <2>1. InUse(v) /\ Accounted(v) /\ v \in 0 .. clock
    BY DEF TypeInv, VersionOK, InUse
  <2>2. ASSUME NEW i \in 1 .. Len(pipe'), pipe'[i].type # "BATCH" PROVE pipe'[i].version = v
    BY <1>6, <2>1, <2>2 DEF InUse, Delivers, Sent
  <2>3. InUse(v)'
    BY <1>1, <2>1, <2>2 DEF InUse, StaysOK
  <2>4. Accounted(v)'
    BY <1>1, <2>1 DEF Accounted
  <2> QED BY <1>1, <2>1, <2>3, <2>4 DEF VersionOK
<1> QED BY <1>4, <1>5, <1>9, <1>10 DEF TypeInv

LEMMA ProgressBacked ==
    ASSUME TypeInv, BackedInv, copying, StaysOK,
           NEW hand \in SUBSET (cursor \cup buffer), NEW more, Delivers(more, hand),
           pipe' = pipe \o more,
           cursor \cup buffer \subseteq cursor' \cup buffer' \cup hand,
           \A i \in 1 .. Len(more) : Spares(more[i], cursor' \cup buffer'),
           OrderOK'
    PROVE  BackedInv'
<1> PICK v : v = version
  OBVIOUS
<1>1. UNCHANGED <<file, target, base>> /\ (copying' => version' = v)
  BY DEF StaysOK
<1>2. /\ Len(pipe') = Len(pipe) + Len(more) /\ Len(pipe) \in Nat /\ Len(more) \in Nat
      /\ \A i \in 1 .. Len(pipe) : pipe'[i] = pipe[i]
      /\ \A i \in 1 .. Len(more) : pipe'[Len(pipe) + i] = more[i]
      /\ \A i \in 1 .. Len(pipe') : i \in 1 .. Len(pipe)
             \/ (i - Len(pipe) \in 1 .. Len(more) /\ pipe'[i] = more[i - Len(pipe)])
  <2>1. pipe \in Seq(MessageType) /\ more \in Seq(MessageType)
    BY DEF TypeInv, DownstreamOK, Delivers
  <2> QED BY <2>1, Appended
<1> DEFINE There(c, w, n) == InTarget(c, w) \/ \E j \in 1 .. n : Carries(pipe'[j], c, w)
<1>3. \A c, w, n : There(c, w, n) <=> (\/ (target'[c.row].xid = c.xid /\ target'[c.row].version \in {w, None})
                                     \/ \E j \in 1 .. n : Carries(pipe'[j], c, w))
  BY <1>1 DEF InTarget
<1>4. ASSUME NEW c, NEW w, NEW n \in 0 .. Len(pipe), NEW k \in 0 .. Len(pipe'), n <= k,
             Reached(c, w, n)
      PROVE  There(c, w, k)
  <2>1. ASSUME NEW j \in 1 .. n, Carries(pipe[j], c, w)
        PROVE  j \in 1 .. k /\ Carries(pipe'[j], c, w)
    <3>1. j \in 1 .. k /\ j \in 1 .. Len(pipe)
      BY <1>2, <1>4
    <3> QED BY <1>2, <2>1, <3>1
  <2> QED BY <1>4, <2>1 DEF Reached
<1>5. \A j \in 1 .. Len(more) : more[j].version \in {v, None}
  BY DEF Delivers, Sent
<1>6. ASSUME NEW c, NEW n \in 0 .. Len(more),
             NEW j \in 1 .. n, IsData(more[j]), c \in more[j].rows
      PROVE  There(c, v, Len(pipe) + n)
  <2>1. j \in 1 .. Len(more) /\ Len(pipe) + j \in 1 .. Len(pipe) + n
    BY <1>2
  <2> QED BY <1>2, <1>5, <1>6, <2>1 DEF Carries
<1>7. CoverOK'
  <2> SUFFICES ASSUME copying', NEW c \in base
               PROVE  c \in cursor' \cup buffer' \/ There(c, v, Len(pipe'))
    BY <1>1, <1>3 DEF CoverOK, Reached, InTarget, Carries, IsData
  <2>1. CASE c \in hand
    <3>1. PICK j \in 1 .. Len(more) : IsData(more[j]) /\ c \in more[j].rows
      BY <2>1 DEF Delivers
    <3>2. There(c, v, Len(pipe) + Len(more))
      BY <1>2, <1>6, <3>1
    <3> QED BY <1>2, <3>2
  <2>2. CASE Reached(c, v, Len(pipe))
    <3>1. Len(pipe) \in 0 .. Len(pipe) /\ Len(pipe') \in 0 .. Len(pipe') /\ Len(pipe) <= Len(pipe')
      BY <1>2
    <3> QED BY <1>4, <2>2, <3>1
  <2>3. c \in cursor \cup buffer \/ Reached(c, v, Len(pipe))
    BY DEF BackedInv, CoverOK
  <2> QED BY <2>1, <2>2, <2>3
<1>8. FileOK'
  BY <1>1 DEF BackedInv, FileOK, InTarget
<1>9. ClaimsOK'
  <2> SUFFICES ASSUME NEW i \in 1 .. Len(pipe'), NEW c \in Claims(pipe'[i])
               PROVE  There(c, pipe'[i].version, i - 1)
    BY <1>1, <1>3 DEF ClaimsOK, Claims, Reached, InTarget, Carries, IsData
  <2>1. CASE i \in 1 .. Len(pipe)
    <3>1. pipe'[i] = pipe[i] /\ i - 1 \in 0 .. Len(pipe) /\ i - 1 \in 0 .. Len(pipe') /\ i - 1 <= i - 1
      BY <1>2, <2>1
    <3>2. Reached(c, pipe[i].version, i - 1)
      BY <2>1, <3>1 DEF BackedInv, ClaimsOK
    <3> QED BY <1>4, <3>1, <3>2
  <2>2. CASE i - Len(pipe) \in 1 .. Len(more) /\ pipe'[i] = more[i - Len(pipe)]
    <3> DEFINE k == i - Len(pipe)
    <3>1. k \in 1 .. Len(more) /\ pipe'[i] = more[k] /\ c \in Claims(more[k])
      BY <2>2
    <3>2. /\ i - 1 = Len(pipe) + (k - 1) /\ k - 1 \in 0 .. Len(more)
          /\ i - 1 \in 0 .. Len(pipe') /\ Len(pipe) \in 0 .. Len(pipe) /\ Len(pipe) <= i - 1
      BY <1>2, <2>2
    <3> HIDE DEF k
    <3>3. more[k].type \in {"STATE", "ACTIVATE_VERSION"} /\ c \in base
      BY <3>1 DEF Claims
    <3>4. ~IsData(more[k]) /\ more[k].version = v
      BY <3>1, <3>3 DEF IsData, Delivers, Sent
    <3>5. CASE c \in hand
      <4>1. PICK j \in 1 .. k - 1 : IsData(more[j]) /\ c \in more[j].rows
        BY <3>1, <3>4, <3>5 DEF Delivers, AfterRows
      <4>2. There(c, v, Len(pipe) + (k - 1))
        BY <1>6, <3>2, <4>1
      <4> QED BY <3>1, <3>2, <3>4, <4>2
    <3>6. CASE Reached(c, v, Len(pipe))
      BY <1>4, <3>1, <3>2, <3>4, <3>6
    <3>7. c \notin cursor' \cup buffer'
      <4>1. SUFFICES ASSUME c \in cursor' \cup buffer' PROVE FALSE
        OBVIOUS
      <4>2. more[k].type = "STATE" /\ c.xid < more[k].xmin /\ more[k].xmin <= c.xid
        BY <3>1, <3>3, <4>1 DEF Spares, Claims
      <4>3. more[k].xmin \in Nat /\ c.xid \in Nat
        <5>1. more[k].xmin \in Watermark /\ c \in RowVersion
          BY <3>1, <3>3, <4>2 DEF Delivers, Sent, TypeInv, TableOK
        <5> QED BY <5>1, XidType DEF RowVersion
      <4> QED BY <4>2, <4>3
    <3>8. c \in cursor \cup buffer \/ Reached(c, v, Len(pipe))
      BY <3>3 DEF BackedInv, CoverOK
    <3> QED BY <3>5, <3>6, <3>7, <3>8
  <2> QED BY <1>2, <2>1, <2>2
<1> QED BY <1>7, <1>8, <1>9 DEF BackedInv

\* A RECORD or BATCH message with all the rows, and perhaps one that claims.
LEMMA OneAfterAnother ==
    ASSUME NEW d, NEW s, IsData(d), Sent(d, d.rows), Sent(s, d.rows),
           NEW more \in Seq(MessageType), Len(more) \in {1, 2}, more[1] = d,
           Len(more) = 2 => more[2] = s
    PROVE  Delivers(more, d.rows) /\ \A i \in 1 .. Len(more) : more[i] \in {d, s}
<1>1. 1 \in 1 .. Len(more) /\ \A i \in 1 .. Len(more) : i = 1 \/ (i = 2 /\ Len(more) = 2 /\ 1 \in 1 .. i - 1)
  <2>1. \A i \in 1 .. 2 : i = 1 \/ (i = 2 /\ 1 \in 1 .. i - 1)
    OBVIOUS
  <2>2. 1 \in 1 .. 1 /\ 1 \in 1 .. 2 /\ \A i \in 1 .. 1 : i = 1
    OBVIOUS
  <2>3. Len(more) = 1 \/ Len(more) = 2
    OBVIOUS
  <2> QED BY <2>1, <2>2, <2>3
<1>2. \A i \in 1 .. Len(more) : more[i] \in {d, s}
  BY <1>1
<1>3. \A i \in 1 .. Len(more) : AfterRows(more, d.rows, i)
  BY <1>1 DEF AfterRows
<1> QED BY <1>1, <1>2, <1>3 DEF Delivers

LEMMA OneByOne ==
    ASSUME NEW S, NEW p \in Seq(S), NEW x \in S, NEW y \in S
    PROVE  (p \o << x >>) \o << y >> = p \o (<< x >> \o << y >>)
<1>1. << x >> \in Seq(S) /\ << y >> \in Seq(S)
  OBVIOUS
<1> QED BY <1>1, ConcatAssociative

LEMMA NothingSent == Len(<< >>) = 0 /\ Delivers(<< >>, {})
BY DEF Delivers

\* A step of the copy hands over rows, hand, and writes messages, more.  Each
\* STATE has the watermark the step leaves, which is the xmin of a row that
\* has left the cursor, or none at the end.
AtWork(hand, more) ==
    /\ copying /\ StaysOK
    /\ hand \in SUBSET (cursor \cup buffer) /\ Delivers(more, hand)
    /\ pipe' = pipe \o more
    /\ cursor \cup buffer \subseteq cursor' \cup buffer' \cup hand
    /\ \A i \in 1 .. Len(more) : more[i].type = "STATE" => more[i].xmin = xmin'
    /\ copying' => \E c \in cursor : xmin' = c.xid
    /\ Ordered => OrderOK' /\ \A i \in 1 .. Len(more) : Spares(more[i], cursor' \cup buffer')

LEMMA AtWorkStep ==
    ASSUME TypeInv, NEW hand, NEW more, AtWork(hand, more)
    PROVE  TypeInv' /\ (Ordered /\ BackedInv => BackedInv')
<1>1. TypeInv'
  BY ProgressTypes DEF AtWork
<1>2. ASSUME Ordered, BackedInv PROVE BackedInv'
  BY <1>2, ProgressBacked DEF AtWork
<1> QED BY <1>1, <1>2

LEMMA CopyRecordWorks ==
    ASSUME TypeInv, CopyRecord
    PROVE  \E hand, more : AtWork(hand, more)
<1>0. PICK c \in Foremost(cursor) :
        /\ cursor' = cursor \ {c}
        /\ xmin' = c.xid
        /\ rows_saved' = (rows_saved + 1) % STATE_UPDATE_PERIOD
        /\ pipe' = pipe \o << Record({c}, version) >>
               \o IF rows_saved' = 0 THEN << State(version, c.xid) >> ELSE << >>
  BY DEF CopyRecord
<1>1. /\ copying /\ ~batch_mode
      /\ UNCHANGED <<table, nextXid, open, copying, batch_mode, version, buffer, file, target, base,
                     clock, crashes>>
  BY DEF CopyRecord, database
<1>2. /\ c \in cursor /\ c \in RowVersion /\ c.xid \in Watermark /\ c.xid \in Nat
      /\ \A d \in cursor : ~TextBefore(d.xid, c.xid)
      /\ buffer = {} /\ version \in 0 .. clock /\ version \in Nat
      /\ copying \in BOOLEAN /\ batch_mode \in BOOLEAN
  <2>1. c \in cursor /\ c \in RowVersion /\ \A d \in cursor : ~TextBefore(d.xid, c.xid)
    BY <1>0 DEF Foremost, TypeInv, ProcessOK
  <2>2. c.xid \in Watermark /\ c.xid \in Nat
    BY <2>1, XidType DEF RowVersion, Watermark
  <2>3. version \in 0 .. clock /\ clock \in 0 .. MaxVersions
    BY DEF TypeInv, ProcessOK, TableOK
  <2>4. version \in Nat
    BY <2>3
  <2> QED BY <1>1, <2>1, <2>2, <2>3, <2>4 DEF TypeInv, ProcessOK
<1>10. PICK d, s : d = Record({c}, version) /\ s = State(version, c.xid)
  OBVIOUS
<1>3. /\ d \in MessageType /\ s \in MessageType
      /\ IsData(d) /\ d.rows = {c} /\ Sent(d, {c}) /\ Sent(s, {c})
  <2>1. {c} \in SUBSET RowVersion
    BY <1>2
  <2> QED BY <1>2, <1>10, <2>1 DEF Record, State, MessageType, IsData, Sent
<1>4. s.type = "STATE" /\ s.xmin = c.xid /\ d.type = "RECORD"
  BY <1>10 DEF Record, State
<1>5. PICK more : /\ pipe' = pipe \o more
                  /\ more \in Seq(MessageType) /\ Len(more) \in {1, 2} /\ more[1] = d
                  /\ Len(more) = 2 => more[2] = s
  <2>1. pipe \in Seq(MessageType) /\ << d >> \in Seq(MessageType) /\ << s >> \in Seq(MessageType)
    BY <1>3 DEF TypeInv, DownstreamOK
  <2>4. Len(<< d >>) = 1 /\ << d >>[1] = d /\ Len(<< s >>) = 1 /\ << s >>[1] = s
    OBVIOUS
  <2>2. CASE rows_saved' = 0
    <3>1. pipe' = (pipe \o << d >>) \o << s >>
      BY <1>0, <1>10, <2>2
    <3>2. pipe' = pipe \o (<< d >> \o << s >>)
      BY <1>3, <2>1, <3>1, OneByOne
    <3> DEFINE more == << d >> \o << s >>
    <3>3. more \in Seq(MessageType) /\ Len(more) = 1 + 1 /\ more[1] = d /\ more[1 + 1] = s
      <4>1. 1 \in 1 .. 1
        OBVIOUS
      <4> QED BY <2>1, <2>4, <4>1, Appended
    <3> HIDE DEF more
    <3>4. Len(more) \in {1, 2} /\ more[2] = s
      BY <3>3
    <3> QED BY <3>2, <3>3, <3>4 DEF more
  <2>3. CASE rows_saved' # 0
    <3>1. pipe' = (pipe \o << d >>) \o << >>
      BY <1>0, <1>10, <2>3
    <3>2. pipe' = pipe \o << d >>
      <4>1. pipe \o << d >> \in Seq(MessageType)
        BY <2>1
      <4> QED BY <3>1, <4>1, ConcatEmptySeq
    <3> DEFINE more == << d >>
    <3>3. more \in Seq(MessageType) /\ Len(more) = 1 /\ more[1] = d
      BY <2>1, <2>4
    <3> HIDE DEF more
    <3>4. Len(more) \in {1, 2} /\ ~(Len(more) = 2)
      BY <3>3
    <3> QED BY <3>2, <3>3, <3>4 DEF more
  <2> QED BY <2>2, <2>3
<1>6. Delivers(more, {c}) /\ \A i \in 1 .. Len(more) : more[i] \in {d, s}
  <2>1. /\ more \in Seq(MessageType) /\ Len(more) \in {1, 2} /\ more[1] = d
        /\ Len(more) = 2 => more[2] = s
    BY <1>5
  <2>2. IsData(d) /\ Sent(d, d.rows) /\ Sent(s, d.rows)
    BY <1>3
  <2>3. Delivers(more, d.rows) /\ \A i \in 1 .. Len(more) : more[i] \in {d, s}
    BY <2>1, <2>2, OneAfterAnother
  <2> QED BY <1>3, <2>3
<1>7. StaysOK /\ {c} \in SUBSET (cursor \cup buffer)
  <2>1. rows_saved' \in 0 .. STATE_UPDATE_PERIOD - 1
    <3>1. rows_saved \in Nat /\ STATE_UPDATE_PERIOD \in Nat \ {0}
      BY SizesAssumption DEF TypeInv, ProcessOK
    <3> QED BY <1>0, <3>1
  <2>2. Cardinality(buffer') < batch_size
    BY <1>1, <1>2, NoRows
  <2> QED BY <1>0, <1>1, <1>2, <2>1, <2>2 DEF StaysOK
<1>8. cursor \cup buffer \subseteq cursor' \cup buffer' \cup {c}
  BY <1>0, <1>1
<1>9. ASSUME Ordered
      PROVE  OrderOK' /\ \A i \in 1 .. Len(more) : Spares(more[i], cursor' \cup buffer')
  <2>1. \A e \in cursor : c.xid <= e.xid
    <3> SUFFICES ASSUME NEW e \in cursor PROVE c.xid <= e.xid
      OBVIOUS
    <3>1. e.xid \in Xids /\ c.xid \in Xids /\ ~TextBefore(e.xid, c.xid)
      BY <1>2 DEF TypeInv, ProcessOK, RowVersion
    <3>2. ~(e.xid < c.xid) /\ e.xid \in Nat
      BY <1>9, <3>1, XidType DEF Ordered
    <3> QED BY <1>2, <3>2
  <2>2. OrderOK'
    BY <1>0, <2>1 DEF OrderOK
  <2>3. \A i \in 1 .. Len(more) : Spares(more[i], cursor' \cup buffer')
    BY <1>0, <1>1, <1>2, <1>4, <1>6, <2>1 DEF Spares
  <2> QED BY <2>2, <2>3
<1>11. \A i \in 1 .. Len(more) : more[i].type = "STATE" => more[i].xmin = xmin'
  BY <1>0, <1>4, <1>6
<1>12. AtWork({c}, more)
  BY <1>0, <1>1, <1>2, <1>5, <1>6, <1>7, <1>8, <1>9, <1>11 DEF AtWork
<1> QED BY <1>12

LEMMA CopyRecordBatchWorks ==
    ASSUME TypeInv, CopyRecordBatch
    PROVE  \E hand, more : AtWork(hand, more)
<1> PICK chunk \in SUBSET cursor :
        /\ IsFront(chunk, cursor)
        /\ cursor' = cursor \ chunk
        /\ \E c \in chunk : xmin' = c.xid /\ \A d \in chunk : ~TextBefore(c.xid, d.xid)
        /\ WriteBatch(chunk, State(version, xmin'))
  BY DEF CopyRecordBatch
<1>1. /\ copying /\ batch_mode
      /\ UNCHANGED <<table, nextXid, open, copying, batch_mode, version, rows_saved, file, target, base,
                     clock, crashes>>
  BY DEF CopyRecordBatch, database
<1>2. PICK c \in chunk : xmin' = c.xid /\ \A d \in chunk : ~TextBefore(c.xid, d.xid)
  OBVIOUS
<1> DEFINE full == buffer \cup chunk
<1>3. /\ cursor \subseteq RowVersion /\ full \subseteq RowVersion
      /\ Cardinality(full) \in Nat /\ batch_size \in Nat
  BY FewRows, NoRows DEF TypeInv, ProcessOK
<1>4. version \in 0 .. clock /\ version \in Nat /\ copying \in BOOLEAN /\ batch_mode \in BOOLEAN
  <2>1. version \in 0 .. clock /\ clock \in 0 .. MaxVersions
    BY DEF TypeInv, ProcessOK, TableOK
  <2>2. version \in Nat
    BY <2>1
  <2> QED BY <2>1, <2>2 DEF TypeInv, ProcessOK
<1>5. xmin' \in Watermark /\ xmin' \in Nat /\ \A e \in cursor : e.xid \in Xids /\ e.xid \in Nat
  <2>1. \A e \in cursor : e.xid \in Xids
    BY <1>3 DEF RowVersion
  <2> QED BY <1>2, <2>1, XidType DEF Watermark
<1> DEFINE d == Batch(full)
           s == State(version, xmin')
<1>6. /\ d \in MessageType /\ s \in MessageType
      /\ IsData(d) /\ d.rows = full /\ Sent(d, full) /\ Sent(s, full)
  <2>1. None \in Nat
    BY DEF None
  <2> QED BY <1>3, <1>4, <1>5, <2>1 DEF Batch, State, MessageType, IsData, Sent
<1>7. s.type = "STATE" /\ s.xmin = xmin' /\ d.type = "BATCH"
  BY DEF Batch, State
<1>8. \/ Cardinality(full) >= batch_size /\ buffer' = {} /\ pipe' = pipe \o << d, s >>
      \/ ~(Cardinality(full) >= batch_size) /\ buffer' = full /\ pipe' = pipe
  BY DEF WriteBatch
<1>9. rows_saved' \in 0 .. STATE_UPDATE_PERIOD - 1
  BY <1>1 DEF TypeInv, ProcessOK
<1>10. Ordered => \A e \in cursor' : xmin' <= e.xid
  <2> SUFFICES ASSUME Ordered, NEW e \in cursor' PROVE xmin' <= e.xid
    OBVIOUS
  <2>1. ~TextBefore(e.xid, c.xid)
    BY <1>2 DEF IsFront
  <2>2. ~(e.xid < c.xid)
    BY <1>2, <1>5, <2>1 DEF Ordered
  <2> QED BY <1>2, <1>5, <2>2
<1> HIDE DEF d, s
<1>11. CASE Cardinality(full) >= batch_size
  <2> DEFINE more == << d, s >>
  <2>1. buffer' = {} /\ pipe' = pipe \o more
    BY <1>3, <1>8, <1>11
  <2>2. more \in Seq(MessageType) /\ Len(more) = 2 /\ more[1] = d /\ more[2] = s
    BY <1>6
  <2> HIDE DEF more
  <2>6. Delivers(more, full) /\ \A i \in 1 .. Len(more) : more[i] \in {d, s}
    <3>1. Len(more) \in {1, 2} /\ (Len(more) = 2 => more[2] = s)
      BY <2>2
    <3> HIDE DEF full
    <3> QED BY <1>6, <2>2, <3>1, OneAfterAnother
  <2>3. StaysOK
    <3>1. Cardinality(buffer') < batch_size
      BY <2>1, NoRows
    <3> QED BY <1>1, <1>4, <1>5, <1>9, <2>1, <3>1 DEF StaysOK
  <2>4. cursor \cup buffer \subseteq cursor' \cup buffer' \cup full
    OBVIOUS
  <2>5. ASSUME Ordered
        PROVE  OrderOK' /\ \A i \in 1 .. Len(more) : Spares(more[i], cursor' \cup buffer')
    <3>1. \A i \in 1 .. Len(more) : Spares(more[i], cursor' \cup buffer')
      BY <1>7, <1>10, <2>1, <2>5, <2>6 DEF Spares
    <3>2. OrderOK'
      BY <1>10, <2>5 DEF OrderOK
    <3> QED BY <3>1, <3>2
  <2>7. \A i \in 1 .. Len(more) : more[i].type = "STATE" => more[i].xmin = xmin'
    BY <1>7, <2>6
  <2>8. full \in SUBSET (cursor \cup buffer)
    OBVIOUS
  <2>9. AtWork(full, more)
    BY <1>1, <1>2, <2>1, <2>3, <2>4, <2>5, <2>6, <2>7, <2>8 DEF AtWork
  <2> QED BY <2>9
<1>12. CASE ~(Cardinality(full) >= batch_size)
  <2>1. buffer' = full /\ pipe' = pipe \o << >> /\ pipe' = pipe
    <3>1. pipe \o << >> = pipe
      BY ConcatEmptySeq DEF TypeInv, DownstreamOK
    <3> QED BY <1>8, <1>12, <3>1
  <2>2. StaysOK /\ {} \in SUBSET (cursor \cup buffer)
    <3>1. Cardinality(buffer') < batch_size
      BY <1>3, <1>12, <2>1
    <3> QED BY <1>1, <1>4, <1>5, <1>9, <2>1, <3>1 DEF StaysOK
  <2>3. ASSUME Ordered PROVE OrderOK'
    BY <1>10, <2>3 DEF OrderOK
  <2>4. cursor \cup buffer \subseteq cursor' \cup buffer' \cup {}
    BY <2>1
  <2>5. AtWork({}, << >>)
    BY <1>1, <1>2, <2>1, <2>2, <2>3, <2>4, NothingSent DEF AtWork
  <2> QED BY <2>5
<1> QED BY <1>11, <1>12

LEMMA FinishCopyWorks ==
    ASSUME TypeInv, FinishCopy
    PROVE  \E hand, more : AtWork(hand, more)
<1>1. /\ copying /\ cursor = {}
      /\ pipe' = pipe \o IfAny(buffer, << Batch(buffer) >>)
                     \o << Activate(version, base), State(version, None) >>
      /\ copying' = FALSE /\ batch_mode' = FALSE /\ version' = None /\ xmin' = None
      /\ cursor' = {} /\ buffer' = {} /\ rows_saved' = 0
      /\ UNCHANGED <<table, nextXid, open, file, target, base, clock, crashes>>
  BY DEF FinishCopy, NoProcess, database
<1>2. /\ buffer \subseteq RowVersion /\ base \subseteq RowVersion
      /\ version \in 0 .. clock /\ version \in Nat /\ clock \in Nat /\ pipe \in Seq(MessageType)
  <2>1. version \in 0 .. clock /\ clock \in 0 .. MaxVersions
    BY DEF TypeInv, ProcessOK, TableOK
  <2>2. version \in Nat
    BY <2>1
  <2> QED BY <2>1, <2>2 DEF TypeInv, ProcessOK, TableOK, DownstreamOK
<1> DEFINE d == Batch(buffer)
           a == Activate(version, base)
           s == State(version, None)
<1>3. /\ d \in MessageType /\ a \in MessageType /\ s \in MessageType
      /\ IsData(d) /\ d.rows = buffer /\ Sent(d, buffer) /\ Sent(a, buffer) /\ Sent(s, buffer)
  <2>1. None \in Nat /\ None \in Watermark
    BY XidType DEF None
  <2> QED BY <1>2, <2>1 DEF Batch, Activate, State, MessageType, IsData, Sent
<1> HIDE DEF d, a, s
<1>4. PICK more : /\ more = IF buffer = {} THEN << a, s >> ELSE << d >> \o << a, s >>
                  /\ pipe' = pipe \o more
  <2>1. /\ << d >> \in Seq(MessageType) /\ << a, s >> \in Seq(MessageType)
        /\ << >> \in Seq(MessageType)
    BY <1>3
  <2>2. CASE buffer = {}
    <3>1. pipe' = (pipe \o << >>) \o << a, s >>
      BY <1>1, <2>2 DEF IfAny, a, s
    <3>2. pipe' = pipe \o << a, s >>
      BY <1>2, <3>1, ConcatEmptySeq
    <3> QED BY <2>2, <3>2
  <2>3. CASE buffer # {}
    <3>1. pipe' = (pipe \o << d >>) \o << a, s >>
      BY <1>1, <2>3 DEF IfAny, d, a, s
    <3>2. pipe' = pipe \o (<< d >> \o << a, s >>)
      BY <1>2, <2>1, <3>1, ConcatAssociative
    <3> QED BY <2>3, <3>2
  <2> QED BY <2>2, <2>3
<1>5. /\ more \in Seq(MessageType)
      /\ \A i \in 1 .. Len(more) : more[i] = d \/ more[i] = a \/ more[i] = s
      /\ \A i \in 1 .. Len(more) : buffer # {} /\ i # 1 => 1 \in 1 .. i - 1
      /\ buffer # {} => 1 \in 1 .. Len(more) /\ more[1] = d
  <2>1. CASE buffer = {}
    <3>1. /\ << a, s >> \in Seq(MessageType) /\ Len(<< a, s >>) = 2
          /\ << a, s >>[1] = a /\ << a, s >>[2] = s
      BY <1>3
    <3>2. \A i \in 1 .. 2 : i = 1 \/ i = 2
      OBVIOUS
    <3> QED BY <1>4, <2>1, <3>1, <3>2
  <2>2. CASE buffer # {}
    <3>1. /\ more \in Seq(MessageType) /\ Len(more) = 3
          /\ more[1] = d /\ more[2] = a /\ more[3] = s
      <4>1. /\ << d >> \in Seq(MessageType) /\ Len(<< d >>) = 1 /\ << d >>[1] = d
            /\ << a, s >> \in Seq(MessageType) /\ Len(<< a, s >>) = 2
            /\ << a, s >>[1] = a /\ << a, s >>[2] = s
        BY <1>3
      <4>2. 1 \in 1 .. 1 /\ 1 \in 1 .. 2 /\ 2 \in 1 .. 2
        OBVIOUS
      <4>3. more = << d >> \o << a, s >>
        BY <1>4, <2>2
      <4>4. more \in Seq(MessageType) /\ Len(more) = 1 + 2
            /\ more[1] = d /\ more[1 + 1] = a /\ more[1 + 2] = s
        BY <4>1, <4>2, <4>3, Appended
      <4> QED BY <4>4
    <3>2. \A i \in 1 .. 3 : i = 1 \/ ((i = 2 \/ i = 3) /\ 1 \in 1 .. i - 1)
      OBVIOUS
    <3>3. 1 \in 1 .. 3
      OBVIOUS
    <3> QED BY <1>4, <2>2, <3>1, <3>2, <3>3
  <2> QED BY <2>1, <2>2
<1>6. Delivers(more, buffer)
  <2>1. \A i \in 1 .. Len(more) : AfterRows(more, buffer, i)
    BY <1>3, <1>5 DEF AfterRows
  <2>2. \A i \in 1 .. Len(more) : Sent(more[i], buffer)
    <3> SUFFICES ASSUME NEW i \in 1 .. Len(more) PROVE Sent(more[i], buffer)
      OBVIOUS
    <3>1. more[i] = d \/ more[i] = a \/ more[i] = s
      BY <1>5
    <3> QED BY <1>3, <3>1
  <2>3. \A c \in buffer : \E j \in 1 .. Len(more) : IsData(more[j]) /\ c \in more[j].rows
    BY <1>3, <1>5
  <2> QED BY <1>5, <2>1, <2>2, <2>3 DEF Delivers
<1>7. StaysOK
  <2>1. Cardinality(buffer') < batch_size
    BY <1>1, NoRows
  <2>2. version' \in 0 .. clock
    BY <1>1, <1>2 DEF None
  <2>3. rows_saved' \in 0 .. STATE_UPDATE_PERIOD - 1
    BY <1>1, SizesAssumption
  <2>4. copying' \in BOOLEAN /\ batch_mode' \in BOOLEAN
    BY <1>1
  <2> QED BY <1>1, <2>1, <2>2, <2>3, <2>4, XidType DEF StaysOK
<1>8. OrderOK' /\ \A i \in 1 .. Len(more) : Spares(more[i], cursor' \cup buffer')
  BY <1>1 DEF OrderOK, Spares
<1>9. \A i \in 1 .. Len(more) : more[i].type = "STATE" => more[i].xmin = xmin'
  <2>1. d.type = "BATCH" /\ a.type = "ACTIVATE_VERSION" /\ s.type = "STATE" /\ s.xmin = None
    BY DEF d, a, s, Batch, Activate, State
  <2>2. ASSUME NEW i \in 1 .. Len(more), more[i].type = "STATE" PROVE more[i] = s
    <3>1. more[i] = d \/ more[i] = a \/ more[i] = s
      BY <1>5
    <3> QED BY <2>1, <2>2, <3>1
  <2> QED BY <1>1, <2>1, <2>2
<1>10. cursor \cup buffer \subseteq cursor' \cup buffer' \cup buffer
  BY <1>1
<1>11. AtWork(buffer, more)
  BY <1>1, <1>4, <1>6, <1>7, <1>8, <1>9, <1>10 DEF AtWork
<1> QED BY <1>11

-----------------------------------------------------------------------------
(***************************************************************************)
(* Crashes and the target.                                                 *)
(***************************************************************************)

LEMMA CrashStep ==
    ASSUME TypeInv, CopyFails \/ PipelineCrash
    PROVE  TypeInv' /\ (BackedInv => BackedInv')
<1>1. /\ UNCHANGED <<table, nextXid, open, file, target, base, clock>>
      /\ copying' = FALSE /\ batch_mode' = FALSE /\ version' = None /\ xmin' = None
      /\ cursor' = {} /\ buffer' = {} /\ rows_saved' = 0
      /\ crashes < MaxCrashes /\ crashes' = crashes + 1
      /\ pipe' = pipe \/ pipe' = << >>
  BY DEF CopyFails, PipelineCrash, Crash, NoProcess, database
<1>2. /\ pipe' \in Seq(MessageType)
      /\ \A i \in 1 .. Len(pipe') : i \in 1 .. Len(pipe) /\ pipe'[i] = pipe[i]
      /\ pipe' # << >> => pipe # << >>
  <2>1. CASE pipe' = pipe
    BY <2>1 DEF TypeInv, DownstreamOK
  <2>2. CASE pipe' = << >>
    BY <2>2
  <2> QED BY <1>1, <2>1, <2>2
<1>3. TableOK'
  <2>1. crashes' \in 0 .. MaxCrashes
    <3>1. crashes \in 0 .. MaxCrashes /\ MaxCrashes \in Nat
      BY CopyBoundsAssumption DEF TypeInv, TableOK
    <3> QED BY <1>1, <3>1
  <2> QED BY <1>1, <2>1 DEF TypeInv, TableOK, Committed
<1>4. ProcessOK'
  <2>1. Cardinality(buffer') < batch_size
    BY <1>1, NoRows
  <2>2. version' \in 0 .. clock' /\ rows_saved' \in 0 .. STATE_UPDATE_PERIOD - 1
    <3>1. clock \in 0 .. MaxVersions
      BY DEF TypeInv, TableOK
    <3> QED BY <1>1, <3>1, SizesAssumption DEF None
  <2>3. copying' \in BOOLEAN /\ batch_mode' \in BOOLEAN
    BY <1>1
  <2> QED BY <1>1, <2>1, <2>2, <2>3, XidType DEF ProcessOK, Settled, Agrees
<1>5. DownstreamOK'
  <2>1. \A i \in 1 .. Len(pipe') : MessageOK(pipe'[i])
    BY <1>2 DEF TypeInv, DownstreamOK
  <2>2. \A i \in 1 .. Len(pipe') : MessageOK(pipe[i])'
    BY <1>1, <2>1 DEF MessageOK, IsData, Settled, Committed, Agrees
  <2> QED BY <1>1, <1>2, <2>2 DEF TypeInv, DownstreamOK, Committed
<1>6. VersionOK'
  <2>1. PICK v \in 0 .. clock :
            InUse(v) /\ (copying \/ pipe # << >> \/ file.xmin # None => Accounted(v))
    BY DEF TypeInv, VersionOK
  <2>2. InUse(v)'
    BY <1>1, <1>2, <2>1 DEF InUse
  <2>3. Accounted(v) => Accounted(v)'
    BY <1>1 DEF Accounted
  <2> QED BY <1>1, <1>2, <2>1, <2>2, <2>3 DEF VersionOK
<1>7. ASSUME BackedInv PROVE BackedInv'
  <2>1. OrderOK' /\ CoverOK' /\ FileOK'
    BY <1>1, <1>7 DEF BackedInv, OrderOK, CoverOK, FileOK, InTarget
  <2>2. ClaimsOK'
    <3>1. CASE pipe' = pipe
      BY <1>1, <1>7, <3>1 DEF BackedInv, ClaimsOK, Claims, Reached, InTarget, Carries, IsData
    <3>2. CASE pipe' = << >>
      BY <3>2 DEF ClaimsOK
    <3> QED BY <1>1, <3>1, <3>2
  <2> QED BY <2>1, <2>2 DEF BackedInv
<1> QED BY <1>3, <1>4, <1>5, <1>6, <1>7 DEF TypeInv

\* What handling the first message does, and what is known of that message.
Chosen(m, r) == CHOOSE c \in m.rows : c.row = r

LEMMA HandleOf ==
    ASSUME TypeInv, TargetHandles, NEW m, m = pipe[1]
    PROVE  /\ UNCHANGED <<table, nextXid, open, copying, batch_mode, version, xmin, cursor, buffer,
                          rows_saved, base, clock, crashes>>
           /\ pipe # << >> /\ m \in MessageType /\ MessageOK(m) /\ 1 \in 1 .. Len(pipe)
           /\ Head(pipe) = m
           /\ pipe' \in Seq(MessageType) /\ Len(pipe) \in Nat /\ Len(pipe') = Len(pipe) - 1
           /\ \A i \in 1 .. Len(pipe') : i + 1 \in 1 .. Len(pipe) /\ pipe'[i] = pipe[i + 1]
           /\ IF m.type = "STATE" THEN file' = [version |-> m.version, xmin |-> m.xmin] ELSE file' = file
           /\ m.type = "STATE" => target' = target
           /\ IsData(m) => target' = [r \in Rows |->
                  IF \E c \in m.rows : c.row = r
                  THEN [xid |-> Chosen(m, r).xid, version |-> m.version] ELSE target[r]]
           /\ m.type = "ACTIVATE_VERSION" => target' = [r \in Rows |->
                  IF target[r].version \in {None, m.version} THEN target[r]
                  ELSE [xid |-> None, version |-> None]]
           /\ m.type = "STATE" \/ IsData(m) \/ m.type = "ACTIVATE_VERSION"
           /\ \A r \in Rows : IsData(m) /\ (\E c \in m.rows : c.row = r) =>
                  Chosen(m, r) \in m.rows /\ Chosen(m, r).row = r
<1>1. pipe \in Seq(MessageType) /\ pipe # << >>
  BY DEF TypeInv, DownstreamOK, TargetHandles
<1>2. /\ 1 \in 1 .. Len(pipe) /\ Head(pipe) = m /\ m \in MessageType
      /\ pipe' \in Seq(MessageType) /\ Len(pipe) \in Nat /\ Len(pipe') = Len(pipe) - 1
      /\ \A i \in 1 .. Len(pipe') : i + 1 \in 1 .. Len(pipe) /\ pipe'[i] = pipe[i + 1]
  <2>1. pipe' = Tail(pipe)
    BY DEF TargetHandles
  <2> QED BY <1>1, <2>1
<1>3. MessageOK(m)
  BY <1>2 DEF TypeInv, DownstreamOK
<1>4. m.type = "STATE" \/ IsData(m) \/ m.type = "ACTIVATE_VERSION"
  BY <1>2 DEF MessageType, IsData
<1>5. UNCHANGED <<table, nextXid, open, copying, batch_mode, version, xmin, cursor, buffer,
                  rows_saved, base, clock, crashes>>
  BY DEF TargetHandles, database, process
<1>6. CASE m.type = "STATE"
  <2>1. file' = [version |-> m.version, xmin |-> m.xmin] /\ target' = target
    BY <1>2, <1>6 DEF TargetHandles
  <2> QED BY <1>1, <1>2, <1>3, <1>5, <1>6, <2>1 DEF IsData
<1>7. CASE m.type \in {"RECORD", "BATCH"}
  <2>1. /\ file' = file
        /\ target' = [r \in Rows |->
               IF \E c \in m.rows : c.row = r
               THEN [xid |-> (CHOOSE c \in m.rows : c.row = r).xid, version |-> m.version]
               ELSE target[r]]
    <3>1. Head(pipe).type \in {"RECORD", "BATCH"} /\ Head(pipe).type # "STATE"
      BY <1>2, <1>7
    <3>2. /\ target' = [r \in Rows |->
                 IF \E c \in Head(pipe).rows : c.row = r
                 THEN [xid |-> (CHOOSE c \in Head(pipe).rows : c.row = r).xid,
                       version |-> Head(pipe).version]
                 ELSE target[r]]
          /\ file' = file
      BY <3>1 DEF TargetHandles
    <3>3. Head(pipe) = m
      BY <1>2
    <3> QED BY <3>2, <3>3
  <2> QED BY <1>1, <1>2, <1>3, <1>5, <1>7, <2>1 DEF IsData, Chosen
<1>8. CASE m.type = "ACTIVATE_VERSION"
  <2>1. /\ file' = file
        /\ target' = [r \in Rows |->
               IF target[r].version \in {None, m.version} THEN target[r]
               ELSE [xid |-> None, version |-> None]]
    BY <1>2, <1>8 DEF TargetHandles
  <2> QED BY <1>1, <1>2, <1>3, <1>5, <1>8, <2>1 DEF IsData
<1> QED BY <1>4, <1>6, <1>7, <1>8 DEF IsData

\* A row of the target stays, or is as a message has it, or is discarded.
LEMMA HandledRow ==
    ASSUME TypeInv, TargetHandles, NEW m, m = pipe[1], NEW r \in Rows
    PROVE  /\ \/ target'[r] = target[r]
              \/ /\ IsData(m)
                 /\ \E c \in m.rows : c.row = r /\ target'[r] = [xid |-> c.xid, version |-> m.version]
              \/ /\ m.type = "ACTIVATE_VERSION" /\ target[r].version \notin {None, m.version}
                 /\ target'[r] = [xid |-> None, version |-> None]
           /\ IsData(m) /\ (\E c \in m.rows : c.row = r) =>
                  \E c \in m.rows : c.row = r /\ target'[r] = [xid |-> c.xid, version |-> m.version]
<1>1. CASE m.type = "STATE"
  <2>1. target' = target /\ ~IsData(m)
    BY <1>1, HandleOf DEF IsData
  <2> QED BY <2>1
<1>2. CASE IsData(m)
  <2>1. target' = [q \in Rows |->
            IF \E c \in m.rows : c.row = q
            THEN [xid |-> Chosen(m, q).xid, version |-> m.version] ELSE target[q]]
    BY <1>2, HandleOf
  <2>2. (\E c \in m.rows : c.row = r) => Chosen(m, r) \in m.rows /\ Chosen(m, r).row = r
    BY <1>2, HandleOf
  <2>3. CASE \E c \in m.rows : c.row = r
    <3>1. target'[r] = [xid |-> Chosen(m, r).xid, version |-> m.version]
      BY <2>1, <2>3
    <3> QED BY <1>2, <2>2, <2>3, <3>1
  <2>4. CASE ~\E c \in m.rows : c.row = r
    BY <2>1, <2>4
  <2> QED BY <2>3, <2>4
<1>3. CASE m.type = "ACTIVATE_VERSION"
  <2>1. target' = [q \in Rows |->
            IF target[q].version \in {None, m.version} THEN target[q]
            ELSE [xid |-> None, version |-> None]]
    BY <1>3, HandleOf
  <2>2. ~IsData(m)
    BY <1>3 DEF IsData
  <2> QED BY <1>3, <2>1, <2>2
<1> QED BY <1>1, <1>2, <1>3, HandleOf

LEMMA TargetTypes == ASSUME TypeInv, TargetHandles PROVE TypeInv'
<1> PICK m : m = pipe[1]
  OBVIOUS
<1>1. UNCHANGED <<table, nextXid, open, copying, batch_mode, version, xmin, cursor, buffer, rows_saved,
                  base, clock, crashes>>
  BY HandleOf
<1>2. /\ m \in MessageType /\ MessageOK(m) /\ 1 \in 1 .. Len(pipe) /\ pipe # << >>
      /\ pipe' \in Seq(MessageType)
      /\ \A i \in 1 .. Len(pipe') : i + 1 \in 1 .. Len(pipe) /\ pipe'[i] = pipe[i + 1]
  BY HandleOf
<1>3. IF m.type = "STATE" THEN file' = [version |-> m.version, xmin |-> m.xmin] ELSE file' = file
  BY HandleOf
<1>4. IsData(m) => m.rows \subseteq RowVersion /\ m.version \in Nat /\ Settled(m.rows)
  <2>1. IsData(m) => m.rows \subseteq RowVersion /\ m.version \in Nat
    BY <1>2 DEF IsData, MessageType
  <2> QED BY <1>2, <2>1 DEF MessageOK
<1>5. TableOK'
  BY <1>1 DEF TypeInv, TableOK, Committed
<1>6. ProcessOK'
  BY <1>1 DEF TypeInv, ProcessOK, Settled, Committed, Agrees
<1>7. ASSUME NEW r \in Rows
      PROVE  /\ target'[r] \in [xid : Watermark, version : Nat]
             /\ target'[r].xid # None => Committed(target'[r].xid)
  <2>1. CASE target'[r] = target[r]
    BY <2>1 DEF TypeInv, DownstreamOK
  <2>2. CASE IsData(m) /\ \E c \in m.rows : c.row = r /\ target'[r] = [xid |-> c.xid, version |-> m.version]
    <3>1. PICK c \in m.rows : target'[r] = [xid |-> c.xid, version |-> m.version]
      BY <2>2
    <3>2. c.xid \in Watermark /\ m.version \in Nat /\ Committed(c.xid)
      BY <1>4, <2>2 DEF RowVersion, Watermark, Settled
    <3> QED BY <3>1, <3>2
  <2>3. CASE target'[r] = [xid |-> None, version |-> None]
    BY <2>3, XidType DEF None
  <2> QED BY <2>1, <2>2, <2>3, HandledRow
<1>8. target' \in [Rows -> [xid : Watermark, version : Nat]]
  <2>1. CASE m.type = "STATE"
    BY <2>1, HandleOf DEF TypeInv, DownstreamOK
  <2>2. CASE m.type # "STATE"
    <3>1. DOMAIN target' = Rows /\ target' = [r \in Rows |-> target'[r]]
      BY <2>2, HandleOf
    <3> QED BY <1>7, <3>1
  <2> QED BY <2>1, <2>2
<1>9. DownstreamOK'
  <2>1. \A i \in 1 .. Len(pipe') : MessageOK(pipe'[i])
    BY <1>2 DEF TypeInv, DownstreamOK
  <2>2. \A i \in 1 .. Len(pipe') : MessageOK(pipe[i])'
    BY <1>1, <2>1 DEF MessageOK, IsData, Settled, Committed, Agrees
  <2>3. file' \in [version : 0 .. clock', xmin : Watermark]
    <3>1. CASE m.type = "STATE"
      BY <1>1, <1>2, <1>3, <3>1 DEF MessageOK
    <3>2. CASE m.type # "STATE"
      BY <1>1, <1>3, <3>2 DEF TypeInv, DownstreamOK
    <3> QED BY <3>1, <3>2
  <2>4. \A r \in Rows : target'[r].xid # None => Committed(target[r].xid)'
    BY <1>1, <1>7 DEF Committed
  <2> QED BY <1>2, <1>8, <2>2, <2>3, <2>4 DEF DownstreamOK
<1>10. VersionOK'
  <2>1. PICK v \in 0 .. clock : InUse(v) /\ Accounted(v)
    BY <1>2 DEF TypeInv, VersionOK
  <2>2. m.type # "BATCH" => m.version = v
    BY <1>2, <2>1 DEF InUse
  <2>3. InUse(v)'
    <3>1. \A i \in 1 .. Len(pipe') : pipe'[i].type # "BATCH" => pipe'[i].version = v
      BY <1>2, <2>1 DEF InUse
    <3>2. file'.xmin # None => file'.version = v
      BY <1>3, <2>1, <2>2 DEF InUse
    <3> QED BY <1>1, <2>1, <3>1, <3>2 DEF InUse
  <2>4. ASSUME NEW r \in Rows, table[r] # None, target'[r].xid = table[r]
        PROVE  target'[r].version \in {None, v} \/ [row |-> r, xid |-> table[r]] \in base
    <3>1. CASE target'[r] = target[r]
      BY <2>1, <2>4, <3>1 DEF Accounted
    <3>2. CASE IsData(m) /\ \E c \in m.rows : c.row = r /\ target'[r] = [xid |-> c.xid, version |-> m.version]
      <4>1. target'[r].version = m.version
        BY <3>2
      <4>2. m.version \in {None, v}
        BY <1>2, <2>2, <3>2 DEF MessageOK, IsData
      <4> QED BY <4>1, <4>2
    <3>3. CASE target'[r] = [xid |-> None, version |-> None]
      BY <3>3
    <3>4. \/ target'[r] = target[r]
          \/ IsData(m) /\ \E c \in m.rows : c.row = r /\ target'[r] = [xid |-> c.xid, version |-> m.version]
          \/ target'[r] = [xid |-> None, version |-> None]
      BY HandledRow
    <3> QED BY <3>1, <3>2, <3>3, <3>4
  <2>5. Accounted(v)'
    BY <1>1, <2>4 DEF Accounted
  <2> QED BY <1>1, <2>1, <2>3, <2>5 DEF VersionOK
<1> QED BY <1>5, <1>6, <1>9, <1>10 DEF TypeInv

\* A row of base that the target has stays, and one that is handled arrives.
LEMMA RowArrives ==
    ASSUME TypeInv, TargetHandles, NEW v, InUse(v), NEW c \in base,
           InTarget(c, v) \/ Carries(pipe[1], c, v)
    PROVE  target'[c.row].xid = c.xid /\ target'[c.row].version \in {v, None}
<1> PICK m : m = pipe[1]
  OBVIOUS
<1>1. c.row \in Rows /\ MessageOK(m) /\ 1 \in 1 .. Len(pipe)
  BY HandleOf DEF TypeInv, TableOK, RowVersion
<1>2. m.version \in {v, None} /\ (m.type = "ACTIVATE_VERSION" => m.version = v)
  BY <1>1 DEF InUse, MessageOK
<1>3. CASE IsData(m) /\ \E d \in m.rows : d.row = c.row
  <2>1. PICK d \in m.rows : d.row = c.row /\ target'[c.row] = [xid |-> d.xid, version |-> m.version]
    BY <1>1, <1>3, HandledRow
  <2>2. d = c
    BY <1>1, <1>3, <2>1 DEF MessageOK, Agrees
  <2> QED BY <1>2, <2>1, <2>2
<1>4. CASE ~(IsData(m) /\ \E d \in m.rows : d.row = c.row)
  <2>1. InTarget(c, v)
    BY <1>4 DEF Carries
  <2>2. target'[c.row] = target[c.row]
    <3>1. target[c.row].version \in {v, None}
      BY <2>1 DEF InTarget
    <3>2. ~(m.type = "ACTIVATE_VERSION" /\ target[c.row].version \notin {None, m.version})
      BY <1>2, <3>1
    <3>3. ~(/\ IsData(m)
            /\ \E d \in m.rows : d.row = c.row /\ target'[c.row] = [xid |-> d.xid, version |-> m.version])
      BY <1>4
    <3> QED BY <1>1, <3>2, <3>3, HandledRow
  <2> QED BY <2>1, <2>2 DEF InTarget
<1> QED BY <1>3, <1>4

LEMMA TargetBacked == ASSUME TypeInv, BackedInv, TargetHandles PROVE BackedInv'
<1> PICK m : m = pipe[1]
  OBVIOUS
<1>1. /\ UNCHANGED <<copying, version, xmin, cursor, buffer, base>>
      /\ 1 \in 1 .. Len(pipe) /\ pipe # << >> /\ Len(pipe) \in Nat /\ Len(pipe') = Len(pipe) - 1
      /\ \A i \in 1 .. Len(pipe') : i + 1 \in 1 .. Len(pipe) /\ pipe'[i] = pipe[i + 1]
      /\ IF m.type = "STATE" THEN file' = [version |-> m.version, xmin |-> m.xmin] ELSE file' = file
  BY HandleOf
<1>2. PICK v : InUse(v)
  BY DEF TypeInv, VersionOK
<1> DEFINE Has(c) == target'[c.row].xid = c.xid /\ target'[c.row].version \in {v, None}
<1>3. ASSUME NEW c \in base, NEW n \in 0 .. Len(pipe), Reached(c, v, n)
      PROVE  Has(c) \/ \E j \in 1 .. n - 1 : Carries(pipe'[j], c, v)
  <2>1. CASE InTarget(c, v) \/ Carries(pipe[1], c, v)
    BY <1>2, <2>1, RowArrives
  <2>2. ASSUME NEW j \in 1 .. n, j # 1, Carries(pipe[j], c, v)
        PROVE  j - 1 \in 1 .. n - 1 /\ Carries(pipe'[j - 1], c, v)
    <3>1. j - 1 \in 1 .. Len(pipe') /\ j - 1 \in 1 .. n - 1 /\ (j - 1) + 1 = j
      BY <1>1, <2>2
    <3> QED BY <1>1, <2>2, <3>1
  <2> QED BY <1>3, <2>1, <2>2 DEF Reached
<1> HIDE DEF Has
<1>4. OrderOK'
  BY <1>1 DEF BackedInv, OrderOK
<1>5. CoverOK'
  <2> SUFFICES ASSUME copying, NEW c \in base
               PROVE  \/ c \in cursor \cup buffer \/ Has(c)
                      \/ \E j \in 1 .. Len(pipe') : Carries(pipe'[j], c, v)
    BY <1>1, <1>2 DEF CoverOK, Reached, InTarget, Carries, IsData, Has, InUse
  <2>1. c \in cursor \cup buffer \/ Reached(c, v, Len(pipe))
    BY <1>2 DEF BackedInv, CoverOK, InUse
  <2>2. Len(pipe) \in 0 .. Len(pipe) /\ Len(pipe) - 1 = Len(pipe')
    BY <1>1
  <2> QED BY <1>3, <2>1, <2>2
<1>6. FileOK'
  <2> SUFFICES ASSUME NEW c \in base, file'.xmin # None, c.xid < file'.xmin
               PROVE  Has(c) /\ file'.version = v
    BY <1>1 DEF FileOK, InTarget, Has
  <2>1. CASE m.type = "STATE"
    <3>1. m.version = v /\ file'.xmin = m.xmin /\ file'.version = v
      BY <1>1, <1>2, <2>1 DEF InUse
    <3>2. c \in Claims(pipe[1])
      BY <2>1, <3>1 DEF Claims
    <3>3. Reached(c, v, 1 - 1)
      BY <1>1, <3>1, <3>2 DEF BackedInv, ClaimsOK
    <3>4. InTarget(c, v)
      <4>1. 1 .. (1 - 1) = {}
        OBVIOUS
      <4> QED BY <3>3, <4>1 DEF Reached
    <3> QED BY <1>2, <3>1, <3>4, RowArrives DEF Has
  <2>2. CASE m.type # "STATE"
    <3>1. file' = file /\ file.version = v
      BY <1>1, <1>2, <2>2 DEF InUse
    <3>2. InTarget(c, v)
      BY <3>1 DEF BackedInv, FileOK
    <3> QED BY <1>2, <3>1, <3>2, RowArrives DEF Has
  <2> QED BY <2>1, <2>2
<1>7. ASSUME NEW i \in 1 .. Len(pipe'), NEW c \in Claims(pipe'[i])
      PROVE  /\ pipe'[i].version = v
             /\ Has(c) \/ \E j \in 1 .. i - 1 : Carries(pipe'[j], c, v)
  <2>1. i + 1 \in 1 .. Len(pipe) /\ pipe'[i] = pipe[i + 1] /\ (i + 1) - 1 = i /\ i \in 0 .. Len(pipe)
    BY <1>1
  <2>2. c \in Claims(pipe[i + 1]) /\ c \in base /\ pipe[i + 1].type # "BATCH"
    BY <2>1 DEF Claims
  <2>3. pipe[i + 1].version = v
    BY <1>2, <2>1, <2>2 DEF InUse
  <2>4. Reached(c, v, i)
    BY <2>1, <2>2, <2>3 DEF BackedInv, ClaimsOK
  <2> QED BY <1>3, <2>1, <2>2, <2>3, <2>4
<1>8. ClaimsOK'
  <2>1. ASSUME NEW i \in 1 .. Len(pipe'), NEW c \in Claims(pipe[i])'
        PROVE  c \in Claims(pipe'[i])
    BY <1>1, <2>1 DEF Claims
  <2>2. ASSUME NEW i \in 1 .. Len(pipe'), NEW c \in Claims(pipe[i])'
        PROVE  Reached(c, v, i - 1)' /\ pipe'[i].version = v
    <3>1. Has(c) \/ \E j \in 1 .. i - 1 : Carries(pipe'[j], c, v)
      BY <1>7, <2>1, <2>2
    <3>2. pipe'[i].version = v
      BY <1>7, <2>1, <2>2
    <3> QED BY <3>1, <3>2 DEF Reached, InTarget, Carries, IsData, Has
  <2> QED BY <2>2 DEF ClaimsOK, Reached, InTarget, Carries
<1> QED BY <1>4, <1>5, <1>6, <1>8 DEF BackedInv

LEMMA StutterStep ==
    ASSUME TypeInv, UNCHANGED vars
    PROVE  TypeInv' /\ (BackedInv => BackedInv')
<1>1. UNCHANGED <<table, nextXid, open, copying, batch_mode, version, xmin, cursor, buffer, rows_saved,
                  pipe, file, target, base, clock, crashes>>
  BY DEF vars, database, process, downstream
<1>2. TableOK' /\ ProcessOK'
  BY <1>1 DEF TypeInv, TableOK, ProcessOK, Settled, Committed, Agrees
<1>3. DownstreamOK'
  BY <1>1 DEF TypeInv, DownstreamOK, MessageOK, IsData, Settled, Committed, Agrees
<1>4. VersionOK'
  BY <1>1 DEF TypeInv, VersionOK, InUse, Accounted
<1>5. BackedInv => BackedInv'
  BY <1>1 DEF BackedInv, OrderOK, CoverOK, FileOK, ClaimsOK, Claims, Reached, Carries, IsData, InTarget
<1> QED BY <1>2, <1>3, <1>4, <1>5 DEF TypeInv

LEMMA NextStep ==
    ASSUME TypeInv, [Next]_vars
    PROVE  TypeInv' /\ (Ordered /\ BackedInv => BackedInv')
<1>1. CASE BeginTransaction \/ CommitTransaction
  BY <1>1, DatabaseTypes, DatabaseBacked
<1>2. CASE StartCopy
  BY <1>2, StartCopyTypes, StartCopyBacked
<1>3. CASE CopyRecord
  BY <1>3, CopyRecordWorks, AtWorkStep
<1>4. CASE CopyRecordBatch
  BY <1>4, CopyRecordBatchWorks, AtWorkStep
<1>5. CASE FinishCopy
  BY <1>5, FinishCopyWorks, AtWorkStep
<1>6. CASE CopyFails \/ PipelineCrash
  BY <1>6, CrashStep
<1>7. CASE TargetHandles
  BY <1>7, TargetTypes, TargetBacked
<1>8. CASE UNCHANGED vars
  BY <1>8, StutterStep
<1> QED BY <1>1, <1>2, <1>3, <1>4, <1>5, <1>6, <1>7, <1>8 DEF Next

-----------------------------------------------------------------------------
(***************************************************************************)
(* The theorems.                                                           *)
(***************************************************************************)

\* Types, the versions of messages and the version in use, whatever the order
\* of ids (prepare, sync_table).
THEOREM TypeInvariant == Spec => []TypeInv
<1>1. Init => TypeInv
  BY InitInv
<1>2. TypeInv /\ [Next]_vars => TypeInv'
  BY NextStep
<1> QED BY <1>1, <1>2, PTL DEF Spec

\* Every variable keeps its type, the batch buffer stays below batch_size and
\* no bookmark has a version that was not handed out.
THEOREM TypeCorrect == Spec => []TypeOK
<1>1. TypeInv => TypeOK
  <2> SUFFICES ASSUME TypeInv PROVE TypeOK
    OBVIOUS
  <2>1. \A k \in DOMAIN pipe : pipe[k] \in MessageType
    BY DEF TypeInv, DownstreamOK
  <2> QED BY <2>1 DEF TypeInv, TableOK, ProcessOK, DownstreamOK, Watermark, TypeOK
<1> QED BY TypeInvariant, <1>1, PTL

\* Rows of base are in the cursor, the buffer, the pipe or the target, and
\* those below a watermark are ahead of it.
THEOREM BackedInvariant == ASSUME Ordered PROVE Spec => [](TypeInv /\ BackedInv)
<1>1. Init => TypeInv /\ BackedInv
  BY InitInv
<1>2. TypeInv /\ BackedInv /\ [Next]_vars => (TypeInv /\ BackedInv)'
  BY NextStep
<1> QED BY <1>1, <1>2, PTL DEF Spec

\* The resume watermark is never ahead of the rows, for ids whose text orders
\* as their numbers (_sync_table_records, _sync_table_arrow).
THEOREM WatermarkIsBacked == ASSUME Ordered PROVE Spec => []WatermarkBacked
<1>1. TypeInv /\ BackedInv => WatermarkBacked
  <2> SUFFICES ASSUME TypeInv, BackedInv PROVE WatermarkBacked
    OBVIOUS
  <2>1. Behind(file, << >>)
    BY DEF Behind, BackedInv, FileOK
  <2>2. ASSUME NEW i \in DOMAIN pipe, pipe[i].type = "STATE"
        PROVE  Behind(pipe[i], SubSeq(pipe, 1, i - 1))
    <3>1. pipe \in Seq(MessageType) /\ i \in 1 .. Len(pipe) /\ Len(pipe) \in Nat
      BY DEF TypeInv, DownstreamOK
    <3> DEFINE before == SubSeq(pipe, 1, i - 1)
    <3>2. DOMAIN before = 1 .. i - 1 /\ \A j \in 1 .. i - 1 : before[j] = pipe[j]
      BY <3>1
    <3> HIDE DEF before
    <3> SUFFICES ASSUME NEW c \in base, pipe[i].xmin # None, c.xid < pipe[i].xmin
                 PROVE  InTarget(c, pipe[i].version) \/ OnItsWay(c, pipe[i].version, before)
      BY DEF Behind, before
    <3>3. c \in Claims(pipe[i])
      BY <2>2 DEF Claims
    <3>4. Reached(c, pipe[i].version, i - 1)
      BY <3>1, <3>3 DEF BackedInv, ClaimsOK
    <3> QED BY <3>2, <3>4 DEF Reached, Carries, IsData, OnItsWay
  <2> QED BY <2>1, <2>2 DEF WatermarkBacked
<1> QED BY BackedInvariant, <1>1, PTL

\* The rows that an activation answers for are in the target before it is
\* handled.
LEMMA CoveredRows ==
    ASSUME TypeInv, BackedInv, HandlesActivation
    PROVE  /\ pipe # << >> /\ Head(pipe) = pipe[1] /\ 1 \in 1 .. Len(pipe)
           /\ Head(pipe).type = "ACTIVATE_VERSION" /\ Head(pipe).covers \in {{}, base}
           /\ \A c \in Head(pipe).covers : InTarget(c, Head(pipe).version)
<1>1. pipe # << >> /\ Head(pipe) = pipe[1] /\ 1 \in 1 .. Len(pipe)
  BY DEF TypeInv, DownstreamOK, HandlesActivation
<1>2. pipe[1].type = "ACTIVATE_VERSION" /\ pipe[1].covers \in {{}, base}
  BY <1>1 DEF TypeInv, DownstreamOK, MessageOK, HandlesActivation
<1>3. ASSUME NEW c \in pipe[1].covers PROVE InTarget(c, pipe[1].version)
  <2>1. c \in Claims(pipe[1])
    BY <1>2 DEF Claims
  <2>2. Reached(c, pipe[1].version, 1 - 1)
    BY <1>1, <2>1 DEF BackedInv, ClaimsOK
  <2>3. 1 .. (1 - 1) = {}
    OBVIOUS
  <2> QED BY <2>2, <2>3 DEF Reached
<1> QED BY <1>1, <1>2, <1>3

\* Only the target's own step touches the target.
LEMMA TargetAlone == [Next]_vars /\ ~TargetHandles => UNCHANGED target
BY DEF Next, vars, downstream, BeginTransaction, CommitTransaction, StartCopy, CopyRecord,
       CopyRecordBatch, FinishCopy, CopyFails, PipelineCrash, Crash

\* A version activated at the end of a copy is complete, however often the copy
\* was interrupted (sync_table).
THEOREM ActivatedIsComplete == ASSUME Ordered PROVE Spec => CompleteWhenActivated
<1>1. ASSUME TypeInv, BackedInv, [Next]_vars, HandlesActivation, NEW c \in Head(pipe).covers
      PROVE  target'[c.row].xid = c.xid /\ target'[c.row].version \in {Head(pipe).version, None}
  <2> PICK v : v = Head(pipe).version
    OBVIOUS
  <2>1. c \in base /\ InTarget(c, v)
    BY <1>1, CoveredRows
  <2>2. CASE TargetHandles
    <3>1. InUse(v)
      <4>1. PICK w : InUse(w)
        BY <1>1 DEF TypeInv, VersionOK
      <4>2. w = v
        BY <1>1, <4>1, CoveredRows DEF InUse
      <4> QED BY <4>1, <4>2
    <3> QED BY <1>1, <2>1, <2>2, <3>1, RowArrives
  <2>3. CASE ~TargetHandles
    BY <1>1, <2>1, <2>3, TargetAlone DEF InTarget
  <2> QED BY <2>2, <2>3
<1>2. TypeInv /\ BackedInv /\ [Next]_vars =>
          [HandlesActivation =>
              \A c \in Head(pipe).covers, v \in {Head(pipe).version} : InTarget(c, v)']_vars
  BY <1>1 DEF InTarget
<1> QED BY BackedInvariant, <1>2, PTL DEF Spec, CompleteWhenActivated
=============================================================================
