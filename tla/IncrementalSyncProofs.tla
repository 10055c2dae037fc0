------------------------ MODULE IncrementalSyncProofs ------------------------
(***************************************************************************)
(* What holds of IncrementalSync for any table, keys, limits, batch sizes  *)
(* and STATE periods, any conversion of keys, any writes and any crashes:  *)
(* activating the version never discards a row; until a key is bookmarked  *)
(* as a higher one, the bookmark never skips a row that appeared in key    *)
(* order, and goes back only for keys bookmarked as lower ones; and all    *)
(* this implements KeyedFeed.                                              *)
(***************************************************************************)
EXTENDS IncrementalSync, WellFoundedInduction, FiniteSetTheorems, SequenceTheorems, TLAPS

-----------------------------------------------------------------------------
(***************************************************************************)
(* The inductive invariant.  NoGaps speaks of the bookmarks that have left *)
(* the tap.  A bookmark is written while the rows below it are spread over *)
(* the target, the pipe and the buffer of the batch writer, and before it  *)
(* they were in the cursor: that no row falls between these is GapOK.  It  *)
(* rests on the query yielding the rows below a key before the bookmark is *)
(* moved to what that key is converted to, and a key that is converted to  *)
(* a higher one breaks it.                                                 *)
(***************************************************************************)

Message ==
    [type : {"STATE"}, version : Nat, key : 0 .. MaxKey]
    \cup [type : {"RECORD", "BATCH"}, rows : SUBSET RowVersion, version : Nat]
    \cup [type : {"ACTIVATE_VERSION"}, version : Nat]

IsData(m) == m.type \in {"RECORD", "BATCH"}

\* A row that a bookmark k has to account for.
Below(r, k) == Punctual(r) /\ table[r].key < k

Has(rows, r)  == \E c \in rows : c.row = r /\ c.write = table[r].write
Carries(m, r) == IsData(m) /\ Has(m.rows, r)

\* Captured rows are what the table had; they still are what it has, if a
\* bookmark may have to account for the row.
Current(rows) ==
    \A c \in rows : Below(c.row, seen) =>
        c.key = table[c.row].key /\ c.write = table[c.row].write

Safe(r) == \/ UpToDate(r)
           \/ \E j \in 1 .. Len(pipe) : Carries(pipe[j], r)
           \/ Has(buffer, r)

TableOK ==
    /\ table \in [Rows -> [key : Keys \cup {None}, write : 0 .. MaxWrites]]
    /\ \A r \in Rows : table[r].write = None => table[r].key = None
    /\ writes \in 0 .. MaxWrites
    /\ late \subseteq Rows
    /\ seen \in 0 .. MaxKey /\ raised \in BOOLEAN /\ clock \in Nat
    /\ target \in [Rows -> [write : Nat, version : Nat]]
    /\ file \in [version : Nat, key : 0 .. MaxKey] /\ file.key <= seen

ProcessOK ==
    /\ syncing \in BOOLEAN /\ batch_mode \in BOOLEAN /\ version \in Nat
    /\ replication_key_value \in 0 .. MaxKey /\ replication_key_value <= seen
    /\ cursor \subseteq RowVersion /\ buffer \subseteq RowVersion
    /\ \A c \in cursor : SingerKey(c.key) <= seen
    /\ ~batch_mode => buffer = {}
    /\ ~syncing => buffer = {} /\ cursor = {}
    /\ Current(cursor) /\ Current(buffer)

PipeOK ==
    /\ pipe \in Seq(Message)
    /\ \A i \in 1 .. Len(pipe) :
           /\ IsData(pipe[i]) => Current(pipe[i].rows)
           /\ pipe[i].type = "STATE" => pipe[i].key <= seen

\* One version is in use from the first STATE message on.
VersionOK ==
    /\ \A r \in Rows : target[r].version \in {None, file.version}
    /\ \A i \in 1 .. Len(pipe) :
           IF pipe[i].type = "BATCH" THEN pipe[i].version = None
           ELSE /\ pipe[i].version # None
                /\ file.version # None => pipe[i].version = file.version
                /\ \A j \in 1 .. Len(pipe) : pipe[j].type # "BATCH" => pipe[j].version = pipe[i].version
                /\ syncing => pipe[i].version = version
    /\ syncing => /\ version # None
                  /\ file.version # None => version = file.version
                  /\ file.version = None => pipe # << >>
    /\ file.version = None /\ pipe # << >> => pipe[1].type = "STATE"

GapOK ==
    ~raised =>
        /\ \A r \in Rows : Below(r, file.key) => UpToDate(r)
        /\ \A i \in 1 .. Len(pipe), r \in Rows :
               pipe[i].type = "STATE" /\ Below(r, pipe[i].key) =>
                   UpToDate(r) \/ \E j \in 1 .. i - 1 : Carries(pipe[j], r)
        /\ \A r \in Rows : syncing /\ Below(r, replication_key_value) => Safe(r)
        /\ \A r \in Rows, c \in cursor :
               Below(r, SingerKey(c.key)) => Safe(r) \/ Has(cursor, r)
        /\ \A c \in cursor : SingerKey(c.key) <= c.key

IInv == TableOK /\ ProcessOK /\ PipeOK /\ VersionOK /\ GapOK

-----------------------------------------------------------------------------
(***************************************************************************)
(* Facts about numbers and sequences.                                      *)
(***************************************************************************)

LEMMA MaxOf ==
    ASSUME NEW n \in Nat, NEW T \in SUBSET (0 .. n), T # {}
    PROVE  Max(T) \in T /\ \A x \in T : x <= Max(T)
<1> DEFINE R == OpToRel(<, Nat)
           D == {n - x : x \in T}
<1>1. \A x, y \in Nat : y < x => <<y, x>> \in R
  BY DEF OpToRel
<1>2. PICK x \in T : \A y \in T : y <= x
  <2>1. IsWellFoundedOn(R, Nat)
    BY NatLessThanWellFounded
  <2>2. D \subseteq Nat /\ D # {}
    <3>1. \A x \in T : n - x \in Nat
      OBVIOUS
    <3> QED BY <3>1
  <2> HIDE DEF R
  <2>3. PICK d \in D : \A e \in D : ~ (<<e, d>> \in R)
    <3> HIDE DEF D
    <3> QED BY <2>1, <2>2, WFMin
  <2>4. PICK x \in T : d = n - x
    OBVIOUS
  <2>5. \A y \in T : n - y \in D /\ n - y \in Nat /\ d \in Nat /\ ~ (n - y < d)
    BY <1>1, <2>2, <2>3
  <2> QED BY <2>4, <2>5
<1> QED BY <1>2 DEF Max

LEMMA MaxOfTwo ==
    ASSUME NEW x \in Nat, NEW y \in Nat
    PROVE  Max({x, y}) \in {x, y} /\ x <= Max({x, y}) /\ y <= Max({x, y})
<1>1. \E z \in {x, y} : \A w \in {x, y} : w <= z
  OBVIOUS
<1> QED BY <1>1 DEF Max

LEMMA Appended ==
    ASSUME NEW S, NEW p \in Seq(S), NEW q \in Seq(S)
    PROVE  /\ p \o q \in Seq(S) /\ Len(p \o q) = Len(p) + Len(q)
           /\ Len(p) \in Nat /\ Len(q) \in Nat
           /\ \A i \in 1 .. Len(p) : (p \o q)[i] = p[i]
           /\ \A i \in 1 .. Len(q) : (p \o q)[Len(p) + i] = q[i]
           /\ \A i \in 1 .. Len(p \o q) : i \in 1 .. Len(p)
                  \/ (i - Len(p) \in 1 .. Len(q) /\ (p \o q)[i] = q[i - Len(p)])
OBVIOUS

LEMMA SingerKeyType ==
    ASSUME NEW k \in 0 .. MaxKey
    PROVE  SingerKey(k) \in 0 .. MaxKey
BY SizesAssumption, ConvertedAssumption DEF SingerKey, None

-----------------------------------------------------------------------------
(***************************************************************************)
(* The initial states and the steps.                                       *)
(***************************************************************************)

LEMMA InitInv == Init => IInv
<1> SUFFICES ASSUME Init PROVE IInv
  OBVIOUS
<1>1. pipe = << >> /\ Len(pipe) = 0
  BY DEF Init
<1>2. TableOK
  <2>1. raised \in BOOLEAN
    BY DEF Init
  <2> QED BY <2>1, SizesAssumption, BoundsAssumption DEF Init, TableOK, None, Keys
<1>3. ProcessOK
  <2>1. Current({})
    BY DEF Current
  <2>2. syncing \in BOOLEAN /\ batch_mode \in BOOLEAN /\ ~syncing
    BY DEF Init
  <2>3. /\ version \in Nat /\ replication_key_value \in 0 .. MaxKey
        /\ replication_key_value <= seen /\ cursor = {} /\ buffer = {}
    BY SizesAssumption DEF Init, None
  <2> QED BY <2>1, <2>2, <2>3 DEF ProcessOK
<1>4. PipeOK /\ VersionOK
  BY <1>1 DEF Init, PipeOK, VersionOK
<1>5. GapOK
  <2>1. \A r \in Rows : ~Punctual(r)
    BY DEF Init, Punctual
  <2> QED BY <2>1 DEF Init, GapOK, Below
<1> QED BY <1>2, <1>3, <1>4, <1>5 DEF IInv

LEMMA WriteInv == ASSUME IInv, Write PROVE IInv'
<1>1. /\ UNCHANGED <<syncing, batch_mode, version, replication_key_value, cursor, buffer,
                     rows_saved, pipe, file, target, seen, raised, clock, crashes>>
      /\ writes < MaxWrites /\ writes' = writes + 1
  BY DEF Write, process, downstream, history
<1>2. PICK r \in Rows, k \in Keys \cup {None} :
          /\ table' = [table EXCEPT ![r] = [key |-> k, write |-> writes']]
          /\ late' = IF k # None /\ k < seen THEN late \cup {r} ELSE late \ {r}
  BY DEF Write
<1>3. /\ table \in [Rows -> [key : Keys \cup {None}, write : 0 .. MaxWrites]]
      /\ writes \in 0 .. MaxWrites /\ late \subseteq Rows /\ seen \in 0 .. MaxKey
      /\ Keys \cup {None} \subseteq Nat /\ MaxWrites \in Nat /\ MaxKey \in Nat
  BY SizesAssumption, BoundsAssumption DEF IInv, TableOK, Keys, None
<1>4. table'[r] = [key |-> k, write |-> writes'] /\ \A q \in Rows \ {r} : table'[q] = table[q]
  BY <1>2, <1>3
  \* Nothing that is known of a row below a bookmark has changed.
<1>5. ASSUME NEW q \in Rows, NEW b \in 0 .. seen
      PROVE  Below(q, b)' => q # r /\ Below(q, b)
  <2>1. CASE q = r
    BY <1>2, <1>3, <1>4, <2>1 DEF Below, Punctual, None
  <2>2. CASE q # r
    BY <1>2, <1>3, <1>4, <2>2 DEF Below, Punctual
  <2> QED BY <2>1, <2>2
<1>6. ASSUME NEW q \in Rows, q # r
      PROVE  /\ UpToDate(q)' = UpToDate(q) /\ Safe(q)' = Safe(q)
             /\ \A rows : Has(rows, q) <=> Has(rows, q)'
             /\ \A m : Carries(m, q) <=> Carries(m, q)'
  <2>1. table'[q] = table[q]
    BY <1>4, <1>6
  <2>2. UpToDate(q)' = UpToDate(q)
    BY <1>1, <2>1 DEF UpToDate
  <2> QED BY <1>1, <2>1, <2>2 DEF Has, Carries, Safe
<1>7. ASSUME NEW rows \in SUBSET RowVersion, Current(rows)
      PROVE  Current(rows)'
  <2>1. \A c \in rows : c.row \in Rows
    BY DEF RowVersion
  <2>2. \A c \in rows : Below(c.row, seen)' => c.row # r /\ Below(c.row, seen)
    BY <1>1, <1>3, <1>5, <2>1
  <2> QED BY <1>4, <1>7, <2>1, <2>2 DEF Current
<1>8. TableOK'
  <2>1. table' \in [Rows -> [key : Keys \cup {None}, write : 0 .. MaxWrites]]
    BY <1>1, <1>2, <1>3
  <2>2. \A q \in Rows : table'[q].write = None => table'[q].key = None
    <3>1. table'[r].write # None
      BY <1>1, <1>3, <1>4 DEF None
    <3> QED BY <1>4, <3>1 DEF IInv, TableOK
  <2>3. late' \subseteq Rows /\ writes' \in 0 .. MaxWrites
    BY <1>1, <1>2, <1>3
  <2> QED BY <1>1, <2>1, <2>2, <2>3 DEF IInv, TableOK
<1>9. ProcessOK'
  BY <1>1, <1>7 DEF IInv, ProcessOK, SingerKey
<1>10. PipeOK'
  <2>1. \A i \in 1 .. Len(pipe) : IsData(pipe[i]) => pipe[i].rows \in SUBSET RowVersion
    BY DEF IInv, PipeOK, Message, IsData
  <2> QED BY <1>1, <1>7, <2>1 DEF IInv, PipeOK, IsData
<1>11. VersionOK'
  BY <1>1 DEF IInv, VersionOK
<1>12. GapOK'
  <2> SUFFICES ASSUME ~raised PROVE GapOK'
    BY <1>1 DEF GapOK
  <2>1. /\ file.key \in 0 .. seen /\ replication_key_value \in 0 .. seen
        /\ \A i \in 1 .. Len(pipe) : pipe[i].type = "STATE" => pipe[i].key \in 0 .. seen
    <3>1. ASSUME NEW m \in Message, m.type = "STATE", m.key <= seen
          PROVE  m.key \in 0 .. seen
      BY <1>3, <3>1 DEF Message
    <3>2. \A i \in 1 .. Len(pipe) : pipe[i].type = "STATE" => pipe[i].key \in 0 .. seen
      BY <3>1 DEF IInv, PipeOK
    <3> QED BY <1>3, <3>2 DEF IInv, TableOK, ProcessOK
  <2>2. \A q \in Rows : Below(q, file.key)' => UpToDate(q)'
    BY <1>1, <1>5, <1>6, <2>1 DEF IInv, GapOK
  <2>3. ASSUME NEW i \in 1 .. Len(pipe), NEW q \in Rows,
               pipe[i].type = "STATE", Below(q, pipe[i].key)'
        PROVE  UpToDate(q)' \/ \E j \in 1 .. i - 1 : Carries(pipe[j], q)'
    <3>1. q # r /\ Below(q, pipe[i].key)
      BY <1>1, <1>5, <2>1, <2>3
    <3>2. UpToDate(q) \/ \E j \in 1 .. i - 1 : Carries(pipe[j], q)
      BY <2>3, <3>1 DEF IInv, GapOK
    <3>3. \A j \in 1 .. i - 1 : Carries(pipe[j], q) => Carries(pipe[j], q)'
      BY <1>1, <1>6, <3>1 DEF Carries, Has
    <3> QED BY <1>6, <3>1, <3>2, <3>3
  <2>4. \A q \in Rows : syncing /\ Below(q, replication_key_value)' => Safe(q)'
    BY <1>1, <1>5, <1>6, <2>1 DEF IInv, GapOK
  <2>5. ASSUME NEW q \in Rows, NEW c \in cursor, Below(q, SingerKey(c.key))'
        PROVE  Safe(q)' \/ Has(cursor, q)'
    <3>1. SingerKey(c.key) \in 0 .. seen
      <4>1. c.key \in 0 .. MaxKey
        BY <1>3 DEF IInv, ProcessOK, RowVersion, Keys, None
      <4> QED BY <1>3, <4>1, SingerKeyType DEF IInv, ProcessOK
    <3>2. q # r /\ Below(q, SingerKey(c.key))
      BY <1>1, <1>5, <2>5, <3>1 DEF Below
    <3>3. Safe(q) \/ Has(cursor, q)
      BY <2>5, <3>2 DEF IInv, GapOK
    <3> QED BY <1>1, <1>6, <3>2, <3>3 DEF Has
  <2>6. \A c \in cursor : SingerKey(c.key) <= c.key
    BY DEF IInv, GapOK
  <2> QED BY <1>1, <2>2, <2>3, <2>4, <2>5, <2>6 DEF GapOK, SingerKey
<1> QED BY <1>8, <1>9, <1>10, <1>11, <1>12 DEF IInv

\* A query's result is current, and has whatever precedes a key it returns.
LEMMA ResultsOf ==
    ASSUME TableOK, NEW k, NEW limit, NEW chunk \in Results(k, limit)
    PROVE  /\ chunk \subseteq RowVersion
           /\ \A c \in chunk : c.key = table[c.row].key /\ c.write = table[c.row].write
           /\ \A r \in Rows, c \in chunk :
                 table[r].key # None /\ Qualifies(table[r].key, k) /\ table[r].key < c.key
                     => Has(chunk, r)
<1>1. chunk \subseteq TableRows(k) /\ IsFront(chunk, TableRows(k))
  BY DEF Results
<1>2. /\ table \in [Rows -> [key : Keys \cup {None}, write : 0 .. MaxWrites]]
      /\ \A r \in Rows : table[r].write = None => table[r].key = None
      /\ Keys \subseteq Nat /\ MaxWrites \in Nat
  BY BoundsAssumption, SizesAssumption DEF TableOK, Keys
<1>3. ASSUME NEW c \in TableRows(k)
      PROVE  /\ c \in RowVersion /\ c.row \in Rows
             /\ c.key = table[c.row].key /\ c.write = table[c.row].write
  <2>1. PICK r \in Rows : /\ table[r].write # None
                          /\ c = [row |-> r, key |-> table[r].key, write |-> table[r].write]
    BY DEF TableRows
  <2> QED BY <1>2, <2>1 DEF RowVersion, None
<1>4. ASSUME NEW r \in Rows, NEW c \in chunk, table[r].key # None,
             Qualifies(table[r].key, k), table[r].key < c.key
      PROVE  Has(chunk, r)
  <2> DEFINE d == [row |-> r, key |-> table[r].key, write |-> table[r].write]
  <2>1. d \in TableRows(k)
    BY <1>2, <1>4 DEF TableRows
  <2>2. c.key # None
    <3>1. c.key \in Keys \cup {None}
      BY <1>1, <1>2, <1>3
    <3>2. table[r].key \in Nat /\ c.key \in Nat
      <4>1. table[r].key \in Keys \cup {None}
        BY <1>2
      <4>2. Keys \cup {None} \subseteq Nat
        BY <1>2 DEF None
      <4> QED BY <3>1, <4>1, <4>2
    <3> QED BY <1>4, <3>2 DEF None
  <2>3. Before(d, c)
    BY <1>4 DEF Before
  <2>4. d \in chunk
    BY <1>1, <2>1, <2>3 DEF IsFront
  <2> QED BY <2>4 DEF Has
<1> QED BY <1>1, <1>3, <1>4

\* What a query returns moves the highest key read, and never back.
LEMMA SeenOf ==
    ASSUME IInv, StartSync
    PROVE  /\ seen' \in 0 .. MaxKey /\ seen <= seen'
           /\ \A c \in cursor' : SingerKey(c.key) <= seen'
<1> DEFINE T == {seen} \cup {SingerKey(c.key) : c \in cursor'}
<1>1. seen' = Max(T) /\ \E limit \in Limits : cursor' \in Results(file.key, limit)
  BY DEF StartSync
<1>2. seen \in 0 .. MaxKey /\ MaxKey \in Nat /\ Keys = 1 .. MaxKey
  BY SizesAssumption DEF IInv, TableOK, Keys
<1>3. ASSUME NEW c \in cursor' PROVE SingerKey(c.key) \in 0 .. MaxKey
  <2>1. c \in RowVersion
    BY <1>1, ResultsOf DEF IInv
  <2>2. c.key \in 0 .. MaxKey
    BY <1>2, <2>1 DEF RowVersion, None
  <2> QED BY <2>2, SingerKeyType
<1>4. T \in SUBSET (0 .. MaxKey) /\ T # {}
  BY <1>2, <1>3
<1>5. seen \in T /\ \A c \in cursor' : SingerKey(c.key) \in T
  OBVIOUS
<1> HIDE DEF T
<1> QED BY <1>1, <1>2, <1>4, <1>5, MaxOf

LEMMA StartSyncInv == ASSUME IInv, StartSync PROVE IInv'
<1>1. /\ UNCHANGED <<table, writes, late, buffer, rows_saved, file, target, crashes>>
      /\ ~syncing /\ pipe = << >> /\ syncing' = TRUE /\ batch_mode' \in Modes
      /\ version' = PickVersion(file) /\ clock' = Max({clock, version'})
      /\ replication_key_value' = file.key
      /\ seen' = Max({seen} \cup {SingerKey(c.key) : c \in cursor'})
      /\ raised' = (raised \/ \E c \in cursor' : SingerKey(c.key) > c.key)
      /\ pipe' = << State(version', file.key), Activate(version') >>
  BY DEF StartSync, database
<1>2. PICK limit \in Limits : cursor' \in Results(file.key, limit)
  BY DEF StartSync
<1>3. /\ cursor' \subseteq RowVersion
      /\ \A c \in cursor' : c.key = table[c.row].key /\ c.write = table[c.row].write
      /\ \A r \in Rows, c \in cursor' :
            table[r].key # None /\ Qualifies(table[r].key, file.key) /\ table[r].key < c.key
                => Has(cursor', r)
  BY <1>2, ResultsOf DEF IInv
<1>4. /\ table \in [Rows -> [key : Keys \cup {None}, write : 0 .. MaxWrites]]
      /\ seen \in 0 .. MaxKey /\ clock \in Nat /\ MaxKey \in Nat /\ Keys = 1 .. MaxKey
      /\ file \in [version : Nat, key : 0 .. MaxKey] /\ file.key <= seen
      /\ buffer = {}
  BY <1>1, SizesAssumption DEF IInv, TableOK, ProcessOK, Keys
<1>5. ASSUME NEW c \in cursor'
      PROVE  c.key \in 0 .. MaxKey /\ SingerKey(c.key) \in 0 .. MaxKey
  <2>1. c \in RowVersion
    BY <1>3
  <2>2. c.key \in 1 .. MaxKey \cup {0}
    BY <1>4, <2>1 DEF RowVersion, None
  <2>3. c.key \in 0 .. MaxKey
    BY <1>4, <2>2
  <2> QED BY <2>3, SingerKeyType
<1>6. /\ seen' \in 0 .. MaxKey /\ seen <= seen'
      /\ \A c \in cursor' : SingerKey(c.key) <= seen'
  BY SeenOf
<1>7. version' \in Nat \ {0} /\ clock' \in Nat /\ (file.version # None => version' = file.version)
  <2>1. version' \in Nat \ {0} /\ (file.version # None => version' = file.version)
    BY <1>1, <1>4 DEF PickVersion, None
  <2>2. clock \in Nat /\ version' \in Nat
    BY <1>4, <2>1
  <2>3. Max({clock, version'}) \in {clock, version'}
    BY <2>2, MaxOfTwo
  <2> QED BY <1>1, <1>4, <2>1, <2>3
<1>8. TableOK'
  <2>1. raised' \in BOOLEAN
    BY <1>1
  <2> QED BY <1>1, <1>4, <1>6, <1>7, <2>1 DEF IInv, TableOK
<1>9. ProcessOK'
  <2>1. Current(cursor)' /\ Current(buffer)'
    BY <1>1, <1>3, <1>4 DEF Current
  <2>2. batch_mode' \in BOOLEAN /\ syncing' \in BOOLEAN
    BY <1>1, ModesAssumption
  <2>3. \A c \in cursor' : SingerKey(c.key)' <= seen'
    BY <1>6 DEF SingerKey
  <2> QED BY <1>1, <1>3, <1>4, <1>6, <1>7, <2>1, <2>2, <2>3 DEF ProcessOK
<1>10. /\ Len(pipe') = 2 /\ pipe'[1] = State(version', file.key) /\ pipe'[2] = Activate(version')
       /\ pipe' \in Seq(Message)
  <2>1. State(version', file.key) \in Message /\ Activate(version') \in Message
    BY <1>4, <1>7 DEF State, Activate, Message
  <2> QED BY <1>1, <2>1
<1>11. PipeOK'
  <2>1. \A i \in 1 .. Len(pipe') : i = 1 \/ i = 2
    BY <1>10
  <2>2. /\ ~IsData(pipe'[1]) /\ pipe'[1].key = file.key
        /\ ~IsData(pipe'[2]) /\ pipe'[2].type # "STATE"
    BY <1>10 DEF IsData, State, Activate
  <2>3. file.key <= seen'
    BY <1>4, <1>6
  <2> QED BY <1>10, <2>1, <2>2, <2>3 DEF PipeOK, IsData
<1>12. VersionOK'
  <2>1. \A i \in 1 .. Len(pipe') : i = 1 \/ i = 2
    BY <1>10
  <2>2. /\ pipe'[1].type = "STATE" /\ pipe'[1].version = version'
        /\ pipe'[2].type = "ACTIVATE_VERSION" /\ pipe'[2].version = version'
    BY <1>10 DEF State, Activate
  <2>3. version' # None /\ (file'.version # None => version' = file'.version) /\ pipe' # << >>
    BY <1>1, <1>7, <1>10 DEF None
  <2>4. \A i \in 1 .. Len(pipe') : pipe'[i].type # "BATCH" /\ pipe'[i].version = version'
    BY <2>1, <2>2
  <2>5. \A r \in Rows : target'[r].version \in {None, file'.version}
    BY <1>1 DEF IInv, VersionOK
  <2> QED BY <2>2, <2>3, <2>4, <2>5 DEF VersionOK
<1>13. GapOK'
  <2> SUFFICES ASSUME ~raised' PROVE GapOK'
    BY DEF GapOK
  <2>1. ~raised /\ \A c \in cursor' : SingerKey(c.key) <= c.key
    <3>1. ~raised /\ \A c \in cursor' : ~(SingerKey(c.key) > c.key)
      BY Zenon DEF StartSync
    <3> QED BY <1>4, <1>5, <3>1
  <2>2. \A r \in Rows : \A k : Below(r, k)' <=> Below(r, k)
    BY <1>1 DEF Below, Punctual
  <2>3. \A r \in Rows : Below(r, file.key) => UpToDate(r)'
    BY <1>1, <2>1 DEF IInv, GapOK, UpToDate
  <2>4. \A r \in Rows : UpToDate(r)' => Safe(r)'
    BY DEF Safe
  <2>5. ASSUME NEW r \in Rows, NEW c \in cursor', Below(r, SingerKey(c.key))
        PROVE  UpToDate(r)' \/ Has(cursor', r)
    <3>1. table[r].key \in 0 .. MaxKey
      BY <1>4 DEF None
    <3>2. table[r].key < c.key
      BY <1>4, <1>5, <2>1, <2>5, <3>1 DEF Below
    <3>3. CASE Qualifies(table[r].key, file.key)
      BY <1>3, <2>5, <3>2, <3>3 DEF Below, Punctual
    <3>4. CASE ~Qualifies(table[r].key, file.key)
      <4>1. table[r].key \in Nat /\ table[r].key < file.key
        BY <1>4, <3>4 DEF Qualifies, None
      <4> QED BY <2>3, <2>5, <4>1 DEF Below
    <3> QED BY <3>3, <3>4
  <2>6. \A r \in Rows : Has(cursor', r) => Has(cursor, r)'
    BY <1>1 DEF Has
  <2>7. ASSUME NEW i \in 1 .. Len(pipe'), NEW r \in Rows, pipe'[i].type = "STATE",
               Below(r, pipe'[i].key)
        PROVE  UpToDate(r)'
    <3>1. i = 1 \/ i = 2
      BY <1>10
    <3>2. pipe'[i].key = file.key
      BY <1>10, <2>7, <3>1 DEF State, Activate
    <3> QED BY <2>3, <2>7, <3>2
  <2>8. \A c \in cursor' : SingerKey(c.key)' = SingerKey(c.key)
    BY DEF SingerKey
  <2> QED BY <1>1, <2>1, <2>2, <2>3, <2>4, <2>5, <2>6, <2>7, <2>8 DEF GapOK
<1> QED BY <1>8, <1>9, <1>11, <1>12, <1>13 DEF IInv

-----------------------------------------------------------------------------
(***************************************************************************)
(* A run at work.  Records, record batches and the end of the query have   *)
(* in common that rows go from the cursor by way of the buffer into the    *)
(* pipe, in key order, and that a STATE message follows all of them.       *)
(***************************************************************************)

InData(c, messages, n) == \E j \in 1 .. n : IsData(messages[j]) /\ c \in messages[j].rows

\* Messages of rows at hand, with STATE messages of bookmark k after them all.
Delivers(more, hand, k) ==
    /\ more \in Seq(Message)
    /\ \A i \in 1 .. Len(more) :
           /\ IsData(more[i]) => more[i].rows \subseteq hand
           /\ more[i].type = "STATE" =>
                  more[i].key = k /\ \A c \in hand : InData(c, more, i - 1)
           /\ more[i].version = IF more[i].type = "BATCH" THEN None ELSE version

\* The key bookmark moves, if it moves, to what a key of a row handled is
\* bookmarked as.
Moves(handled, k) ==
    k # replication_key_value =>
        \E c \in handled : /\ c.key # None /\ k = SingerKey(c.key)
                           /\ k = None => batch_mode

\* The rows at hand go to the messages or stay in the buffer; k is the key
\* bookmark afterwards.
Progress(handled, more, k) ==
    LET hand == buffer \cup handled
    IN  /\ handled \subseteq cursor /\ IsFront(handled, cursor)
        /\ Moves(handled, k)
        /\ Delivers(more, hand, k)
        /\ pipe' = pipe \o more
        /\ cursor' = cursor \ handled
        /\ \/ /\ syncing' = TRUE /\ replication_key_value' = k
              /\ UNCHANGED <<batch_mode, version>>
              /\ buffer' \subseteq hand /\ (~batch_mode => buffer' = {})
              /\ \A c \in hand : c \in buffer' \/ InData(c, more, Len(more))
           \/ /\ NoProcess
              /\ \A c \in hand : InData(c, more, Len(more))

\* A step of the run at work.
AtWork ==
    /\ syncing
    /\ \E handled, more, k : Progress(handled, more, k)
    /\ UNCHANGED <<table, writes, late, file, target, seen, raised, clock, crashes>>

LEMMA ProgressInv ==
    ASSUME IInv, syncing, NEW handled, NEW more, NEW k, Progress(handled, more, k),
           UNCHANGED <<table, writes, late, file, target, seen, raised, clock>>
    PROVE  IInv'
<1> DEFINE hand       == buffer \cup handled
           Reached(r) == \/ UpToDate(r)
                         \/ \E j \in 1 .. Len(pipe) : Carries(pipe[j], r)
                         \/ Has(hand, r)
<1>1. /\ handled \subseteq cursor /\ IsFront(handled, cursor)
      /\ k # replication_key_value => \E c \in handled : k = SingerKey(c.key)
      /\ more \in Seq(Message)
      /\ \A i \in 1 .. Len(more) :
             /\ IsData(more[i]) => more[i].rows \subseteq hand
             /\ more[i].type = "STATE" =>
                    more[i].key = k /\ \A c \in hand : InData(c, more, i - 1)
             /\ more[i].version = IF more[i].type = "BATCH" THEN None ELSE version
      /\ pipe' = pipe \o more /\ cursor' = cursor \ handled
      /\ syncing' =>
             /\ replication_key_value' = k /\ UNCHANGED <<batch_mode, version>>
             /\ buffer' \subseteq hand /\ (~batch_mode => buffer' = {})
      /\ ~syncing' => NoProcess
      /\ syncing' \in BOOLEAN
      /\ \A c \in hand : c \in buffer' \/ InData(c, more, Len(more))
  BY DEF Progress, Moves, Delivers, NoProcess
<1>2. /\ pipe \in Seq(Message) /\ pipe' \in Seq(Message) /\ Len(pipe') = Len(pipe) + Len(more)
      /\ Len(pipe) \in Nat /\ Len(more) \in Nat
      /\ \A i \in 1 .. Len(pipe) : pipe'[i] = pipe[i]
      /\ \A i \in 1 .. Len(more) : pipe'[Len(pipe) + i] = more[i]
      /\ \A i \in 1 .. Len(pipe') : i \in 1 .. Len(pipe)
             \/ (i - Len(pipe) \in 1 .. Len(more) /\ pipe'[i] = more[i - Len(pipe)])
  <2>1. pipe \in Seq(Message)
    BY DEF IInv, PipeOK
  <2> QED BY <1>1, <2>1, Appended
<1>3. /\ table \in [Rows -> [key : Keys \cup {None}, write : 0 .. MaxWrites]]
      /\ Keys \cup {None} = 0 .. MaxKey /\ MaxKey \in Nat /\ seen \in 0 .. MaxKey
      /\ cursor \subseteq RowVersion /\ buffer \subseteq RowVersion
      /\ \A r \in Rows : table[r].key \in 0 .. MaxKey
  BY SizesAssumption DEF IInv, TableOK, ProcessOK, Keys, None
<1>4. /\ \A r, b : Below(r, b)' <=> Below(r, b)
      /\ \A r : UpToDate(r)' <=> UpToDate(r)
      /\ \A r, rows : Has(rows, r) <=> \E c \in rows : c.row = r /\ c.write = table'[r].write
      /\ \A rows : Current(rows) <=>
             \A c \in rows : Below(c.row, seen') =>
                 c.key = table'[c.row].key /\ c.write = table'[c.row].write
  BY DEF Below, Punctual, UpToDate, Has, Current
<1>5. k \in 0 .. MaxKey /\ k <= seen
  <2>1. CASE k = replication_key_value
    BY <2>1 DEF IInv, ProcessOK
  <2>2. CASE \E c \in handled : k = SingerKey(c.key)
    <3>1. PICK c \in handled : k = SingerKey(c.key)
      BY <2>2
    <3>2. c.key \in 0 .. MaxKey
      BY <1>1, <1>3 DEF RowVersion
    <3> QED BY <1>1, <3>1, <3>2, SingerKeyType DEF IInv, ProcessOK
  <2> QED BY <1>1, <2>1, <2>2
  \* The new bookmark speaks only of rows that have come out of the query.
<1>6. ASSUME ~raised, NEW r \in Rows, Below(r, k)
      PROVE  Reached(r)
  <2>1. CASE k = replication_key_value
    BY <1>6, <2>1 DEF IInv, GapOK, Safe, Has
  <2>2. CASE \E c \in handled : k = SingerKey(c.key)
    <3>1. PICK c \in handled : k = SingerKey(c.key)
      BY <2>2
    <3>2. (Safe(r) \/ Has(cursor, r)) /\ k <= c.key /\ c.key \in 0 .. MaxKey
      BY <1>1, <1>3, <1>6, <3>1 DEF IInv, GapOK, RowVersion
    <3>3. ASSUME Has(cursor, r)
          PROVE  Has(hand, r)
      <4>1. PICK d \in cursor : d.row = r /\ d.write = table[r].write
        BY <3>3 DEF Has
      <4>2. Below(r, seen)
        BY <1>3, <1>5, <1>6 DEF Below
      <4>3. d.key = table[r].key /\ d.key # None /\ d.key < k
        BY <1>6, <4>1, <4>2 DEF IInv, ProcessOK, Current, Below, Punctual
      <4>4. Before(d, c)
        BY <1>3, <1>5, <3>2, <4>3 DEF Before
      <4>5. d \in handled
        BY <1>1, <4>1, <4>4 DEF IsFront
      <4> QED BY <4>1, <4>5 DEF Has
    <3> QED BY <3>2, <3>3 DEF Safe, Has
  <2> QED BY <1>1, <2>1, <2>2
<1>7. ASSUME NEW r, Has(hand, r), NEW n \in 0 .. Len(more),
             \A c \in hand : InData(c, more, n)
      PROVE  \E j \in Len(pipe) + 1 .. Len(pipe) + n : Carries(pipe'[j], r)
  <2>1. PICK c \in hand : c.row = r /\ c.write = table[r].write
    BY <1>7 DEF Has
  <2>2. PICK j \in 1 .. n : IsData(more[j]) /\ c \in more[j].rows
    BY <1>7 DEF InData
  <2>3. j \in 1 .. Len(more) /\ Len(pipe) + j \in Len(pipe) + 1 .. Len(pipe) + n
    BY <1>2
  <2>4. pipe'[Len(pipe) + j] = more[j]
    BY <1>2, <2>3
  <2> QED BY <2>1, <2>2, <2>3, <2>4 DEF Carries, Has
<1>8. ASSUME NEW r, Reached(r)
      PROVE  Safe(r)'
  <2>1. CASE UpToDate(r)
    BY <1>4, <2>1 DEF Safe
  <2>2. CASE \E j \in 1 .. Len(pipe) : Carries(pipe[j], r)
    <3>1. PICK j \in 1 .. Len(pipe) : Carries(pipe[j], r)
      BY <2>2
    <3>2. j \in 1 .. Len(pipe') /\ pipe'[j] = pipe[j]
      BY <1>2
    <3> QED BY <3>1, <3>2 DEF Safe, Carries, Has
  <2>3. CASE Has(hand, r)
    <3>1. PICK c \in hand : c.row = r /\ c.write = table[r].write
      BY <2>3 DEF Has
    <3>2. CASE c \in buffer'
      BY <3>1, <3>2 DEF Safe, Has
    <3>3. CASE InData(c, more, Len(more))
      <4>1. PICK j \in 1 .. Len(more) : IsData(more[j]) /\ c \in more[j].rows
        BY <3>3 DEF InData
      <4>2. Len(pipe) + j \in 1 .. Len(pipe') /\ pipe'[Len(pipe) + j] = more[j]
        BY <1>2
      <4> QED BY <3>1, <4>1, <4>2 DEF Safe, Carries, Has
    <3> QED BY <1>1, <3>1, <3>2, <3>3
  <2> QED BY <1>8, <2>1, <2>2, <2>3
<1>9. ASSUME NEW r, Safe(r)
      PROVE  Reached(r)
  BY <1>9 DEF Safe, Has
<1>10. Current(hand) /\ hand \subseteq RowVersion
  BY <1>1, <1>3 DEF IInv, ProcessOK, Current
<1> HIDE DEF hand, Reached
<1>11. TableOK'
  BY DEF IInv, TableOK
<1>12. ProcessOK'
  <2>1. CASE syncing'
    <3>1. buffer' \subseteq hand /\ cursor' \subseteq cursor
      BY <1>1, <2>1
    <3>2. Current(cursor)' /\ Current(buffer)'
      BY <1>4, <1>10, <3>1 DEF IInv, ProcessOK, Current
    <3>3. buffer' \subseteq RowVersion /\ cursor' \subseteq RowVersion
      BY <1>3, <1>10, <3>1
    <3>4. \A c \in cursor' : SingerKey(c.key)' <= seen'
      BY <3>1 DEF IInv, ProcessOK, SingerKey
    <3>5. batch_mode' \in BOOLEAN /\ syncing' \in BOOLEAN /\ (~batch_mode' => buffer' = {})
      BY <1>1, <2>1 DEF IInv, ProcessOK
    <3> QED BY <1>1, <1>5, <2>1, <3>2, <3>3, <3>4, <3>5 DEF IInv, ProcessOK
  <2>2. CASE ~syncing'
    <3>1. /\ cursor' = {} /\ buffer' = {} /\ version' = 0 /\ replication_key_value' = 0
          /\ batch_mode' = FALSE /\ syncing' = FALSE
      BY <1>1, <2>2 DEF NoProcess, None
    <3>2. Current(cursor)' /\ Current(buffer)'
      BY <3>1 DEF Current
    <3>3. batch_mode' \in BOOLEAN /\ syncing' \in BOOLEAN
      BY <3>1
    <3>4. /\ replication_key_value' \in 0 .. MaxKey /\ replication_key_value' <= seen'
          /\ version' \in Nat
      BY <1>3, <3>1
    <3> QED BY <3>1, <3>2, <3>3, <3>4 DEF ProcessOK
  <2> QED BY <2>1, <2>2
<1>13. PipeOK'
  <2>1. ASSUME NEW i \in 1 .. Len(pipe')
        PROVE  /\ IsData(pipe'[i]) => Current(pipe'[i].rows)
               /\ pipe'[i].type = "STATE" => pipe'[i].key <= seen
    <3>1. CASE i \in 1 .. Len(pipe)
      BY <1>2, <3>1 DEF IInv, PipeOK
    <3>2. CASE i - Len(pipe) \in 1 .. Len(more) /\ pipe'[i] = more[i - Len(pipe)]
      <4> DEFINE m == pipe'[i]
      <4>1. /\ IsData(m) => m.rows \subseteq hand
            /\ m.type = "STATE" => m.key = k
        BY <1>1, <3>2
      <4> HIDE DEF m
      <4>2. IsData(m) => Current(m.rows)
        BY <1>10, <4>1 DEF Current
      <4> QED BY <1>5, <4>1, <4>2 DEF m
    <3> QED BY <1>2, <3>1, <3>2
  <2> QED BY <1>2, <2>1 DEF PipeOK, IsData, Current, Below, Punctual
<1>14. VersionOK'
  <2>1. /\ version # None /\ (file.version # None => version = file.version)
        /\ file.version = None => pipe # << >> /\ pipe[1].type = "STATE"
        /\ \A r \in Rows : target[r].version \in {None, file.version}
        /\ \A i \in 1 .. Len(pipe) :
               pipe[i].version = IF pipe[i].type = "BATCH" THEN None ELSE version
    BY DEF IInv, VersionOK
  <2>2. ASSUME NEW i \in 1 .. Len(pipe')
        PROVE  pipe'[i].version = IF pipe'[i].type = "BATCH" THEN None ELSE version
    <3>1. CASE i \in 1 .. Len(pipe)
      BY <1>2, <2>1, <3>1
    <3>2. CASE i - Len(pipe) \in 1 .. Len(more) /\ pipe'[i] = more[i - Len(pipe)]
      BY <1>1, <3>2
    <3> QED BY <1>2, <3>1, <3>2
  <2>3. file.version = None => pipe' # << >> /\ pipe'[1].type = "STATE"
    <3> SUFFICES ASSUME file.version = None
                 PROVE  pipe' # << >> /\ pipe'[1].type = "STATE"
      OBVIOUS
    <3>1. Len(pipe) # 0
      BY <1>2, <2>1
    <3>2. 1 \in 1 .. Len(pipe) /\ Len(pipe') # 0
      BY <1>2, <3>1
    <3> QED BY <1>2, <2>1, <3>2
  <2>4. syncing' => version' = version
    BY <1>1
  <2> QED BY <2>1, <2>2, <2>3, <2>4 DEF VersionOK
<1>15. GapOK'
  <2> SUFFICES ASSUME ~raised PROVE GapOK'
    BY DEF GapOK
  <2>1. \A r \in Rows : Below(r, file.key)' => UpToDate(r)'
    BY <1>4 DEF IInv, GapOK
  <2>2. ASSUME NEW i \in 1 .. Len(pipe'), NEW r \in Rows,
               pipe'[i].type = "STATE", Below(r, pipe'[i].key)
        PROVE  UpToDate(r) \/ \E j \in 1 .. i - 1 : Carries(pipe'[j], r)
    <3>1. CASE i \in 1 .. Len(pipe)
      <4>1. UpToDate(r) \/ \E j \in 1 .. i - 1 : Carries(pipe[j], r)
        BY <1>2, <2>2, <3>1 DEF IInv, GapOK
      <4>2. \A j \in 1 .. i - 1 : pipe'[j] = pipe[j]
        BY <1>2, <3>1
      <4> QED BY <4>1, <4>2
    <3>2. CASE i - Len(pipe) \in 1 .. Len(more) /\ pipe'[i] = more[i - Len(pipe)]
      <4> DEFINE n == i - Len(pipe) - 1
      <4>1. pipe'[i].key = k /\ \A c \in hand : InData(c, more, n)
        BY <1>1, <2>2, <3>2
      <4>2. n \in 0 .. Len(more) /\ Len(pipe) + n = i - 1
        BY <1>2, <3>2
      <4>3. Reached(r)
        BY <1>6, <2>2, <4>1
      <4> HIDE DEF n
      <4>4. CASE \E j \in 1 .. Len(pipe) : Carries(pipe[j], r)
        <5>1. PICK j \in 1 .. Len(pipe) : Carries(pipe[j], r)
          BY <4>4
        <5>2. j \in 1 .. i - 1 /\ pipe'[j] = pipe[j]
          BY <1>2, <3>2
        <5> QED BY <5>1, <5>2
      <4>5. CASE Has(hand, r)
        <5>1. PICK j \in Len(pipe) + 1 .. Len(pipe) + n : Carries(pipe'[j], r)
          BY <1>7, <4>1, <4>2, <4>5
        <5>2. j \in 1 .. i - 1
          BY <1>2, <4>2
        <5> QED BY <5>1, <5>2
      <4> QED BY <4>3, <4>4, <4>5 DEF Reached
    <3> QED BY <1>2, <3>1, <3>2
  <2>3. \A r \in Rows : syncing' /\ Below(r, replication_key_value)' => Safe(r)'
    BY <1>1, <1>4, <1>6, <1>8
  <2>4. ASSUME NEW r \in Rows, NEW c \in cursor', Below(r, SingerKey(c.key))
        PROVE  Safe(r)' \/ Has(cursor, r)'
    <3>1. Safe(r) \/ Has(cursor, r)
      BY <1>1, <2>4 DEF IInv, GapOK
    <3>2. CASE Has(cursor, r)
      <4>1. PICK d \in cursor : d.row = r /\ d.write = table[r].write
        BY <3>2 DEF Has
      <4>2. CASE d \in handled
        <5>1. Has(hand, r)
          BY <4>1, <4>2 DEF Has, hand
        <5> QED BY <1>8, <5>1 DEF Reached
      <4>3. CASE d \notin handled
        <5>1. d \in cursor'
          BY <1>1, <4>3
        <5> QED BY <4>1, <5>1 DEF Has
      <4> QED BY <4>2, <4>3
    <3> QED BY <1>8, <1>9, <3>1, <3>2
  <2>5. \A c \in cursor' : SingerKey(c.key) <= c.key
    BY <1>1 DEF IInv, GapOK
  <2> QED BY <1>4, <2>1, <2>2, <2>3, <2>4, <2>5 DEF GapOK, Carries, Has, SingerKey
<1> QED BY <1>11, <1>12, <1>13, <1>14, <1>15 DEF IInv

LEMMA OneAfterAnother ==
    ASSUME NEW S, NEW p \in Seq(S), NEW x \in S, NEW y \in S
    PROVE  (p \o << x >>) \o << y >> = p \o << x, y >>
<1>1. << x >> \in Seq(S) /\ << y >> \in Seq(S)
  OBVIOUS
<1>2. << x >> \o << y >> = << x, y >>
  <2> DEFINE s == << x >> \o << y >>
             u == << x, y >>
  <2>1. s \in Seq(S) /\ Len(s) = 2 /\ s[1] = x /\ s[2] = y
    <3>1. /\ Len(<< x >>) = 1 /\ Len(<< y >>) = 1 /\ << x >>[1] = x /\ << y >>[1] = y
      OBVIOUS
    <3>2. /\ s \in Seq(S) /\ Len(s) = 1 + 1
          /\ \A i \in 1 .. 1 + 1 : s[i] = IF i <= 1 THEN << x >>[i] ELSE << y >>[i - 1]
      BY <1>1, <3>1, ConcatProperties
    <3> HIDE DEF s
    <3> QED BY <3>1, <3>2
  <2>2. u \in Seq(S) /\ Len(u) = 2 /\ u[1] = x /\ u[2] = y
    OBVIOUS
  <2> HIDE DEF s, u
  <2>3. \A i \in 1 .. Len(s) : i = 1 \/ i = 2
    BY <2>1
  <2>4. s = u
    BY <2>1, <2>2, <2>3, SeqEqual
  <2> QED BY <2>4 DEF s, u
<1>3. (p \o << x >>) \o << y >> = p \o (<< x >> \o << y >>)
  BY <1>1, ConcatAssociative
<1> QED BY <1>2, <1>3

\* The messages of a step: all the rows at hand, and perhaps a STATE message.
LEMMA DataThenState ==
    ASSUME NEW hand, NEW k, NEW m \in Message, NEW st \in Message,
           m.type \in {"RECORD", "BATCH"}, m.rows = hand,
           m.version = IF m.type = "BATCH" THEN None ELSE version,
           st.type = "STATE", st.version = version, st.key = k,
           NEW more, more = << m >> \/ more = << m, st >>
    PROVE  Delivers(more, hand, k) /\ \A c \in hand : InData(c, more, Len(more))
<1>1. IsData(m) /\ m.type # "STATE" /\ ~IsData(st) /\ st.type # "BATCH"
  BY DEF IsData
<1>2. CASE more = << m >>
  <2>1. more \in Seq(Message) /\ Len(more) = 1 /\ more[1] = m
    BY <1>2
  <2>2. \A i \in 1 .. Len(more) : more[i] = m
    BY <2>1
  <2>3. \A c \in hand : InData(c, more, 1)
    BY <1>1, <2>1 DEF InData
  <2> QED BY <1>1, <2>1, <2>2, <2>3 DEF Delivers
<1>3. CASE more = << m, st >>
  <2>1. more \in Seq(Message) /\ Len(more) = 2 /\ more[1] = m /\ more[2] = st
    BY <1>3
  <2>2. \A i \in 1 .. Len(more) : i = 1 \/ i = 2
    BY <2>1
  <2>3. \A c \in hand : InData(c, more, 1) /\ InData(c, more, 2)
    BY <1>1, <2>1 DEF InData
  <2>4. 2 - 1 = 1
    OBVIOUS
  <2> QED BY <1>1, <2>1, <2>2, <2>3, <2>4 DEF Delivers
<1> QED BY <1>2, <1>3

LEMMA SyncRecordWorks == ASSUME IInv, SyncRecord PROVE AtWork
<1>1. /\ UNCHANGED <<table, writes, late, syncing, batch_mode, version, buffer, file, target,
                     seen, raised, clock, crashes>>
      /\ syncing /\ ~batch_mode
  BY DEF SyncRecord, database, history
<1>2. PICK c \in cursor :
          /\ IsFront({c}, cursor) /\ cursor' = cursor \ {c}
          /\ replication_key_value' = NextBookmark(c.key)
          /\ pipe' = pipe \o << Record({c}, version) >>
                 \o IF rows_saved' = 0
                    THEN << State(version, replication_key_value') >> ELSE << >>
  BY DEF SyncRecord
<1> DEFINE k    == replication_key_value'
           m    == Record({c}, version)
           st   == State(version, k)
           more == IF rows_saved' = 0 THEN << m, st >> ELSE << m >>
           hand == buffer \cup {c}
<1>3. /\ buffer = {} /\ c \in RowVersion /\ version \in Nat /\ pipe \in Seq(Message)
      /\ c.key \in 0 .. MaxKey /\ replication_key_value \in 0 .. MaxKey
  BY <1>1, SizesAssumption DEF IInv, ProcessOK, PipeOK, RowVersion, Keys, None
<1>4. Moves({c}, k)
  BY <1>2 DEF NextBookmark, Moves, SingerKey
<1>5. k \in 0 .. MaxKey
  BY <1>2, <1>3, SingerKeyType DEF NextBookmark
<1> HIDE DEF k
<1>6. /\ m \in Message /\ IsData(m) /\ m.rows = {c} /\ m.version = version /\ m.type = "RECORD"
      /\ st \in Message /\ st.type = "STATE" /\ st.version = version /\ st.key = k
  BY <1>3, <1>5 DEF Record, State, Message, IsData
<1> HIDE DEF m, st
<1>7. pipe' = pipe \o more
  <2>1. CASE rows_saved' = 0
    <3>1. pipe' = (pipe \o << m >>) \o << st >>
      BY <1>2, <2>1 DEF m, st, k
    <3>2. (pipe \o << m >>) \o << st >> = pipe \o << m, st >>
      <4>1. pipe \in Seq(Message) /\ m \in Message /\ st \in Message
        BY <1>3, <1>6
      <4> HIDE DEF more, hand
      <4> QED BY <4>1, OneAfterAnother
    <3> QED BY <2>1, <3>1, <3>2
  <2>2. CASE rows_saved' # 0
    <3>1. pipe' = (pipe \o << m >>) \o << >>
      BY <1>2, <2>2 DEF m
    <3>2. pipe \o << m >> \in Seq(Message)
      BY <1>3, <1>6
    <3> QED BY <2>2, <3>1, <3>2, ConcatEmptySeq
  <2> QED BY <2>1, <2>2
<1>8. (more = << m >> \/ more = << m, st >>) /\ hand = {c}
  BY <1>3
<1> HIDE DEF more
<1>9. Delivers(more, {c}, k) /\ \A d \in {c} : InData(d, more, Len(more))
  BY <1>6, <1>8, DataThenState
<1>10. Progress({c}, more, k)
  BY <1>1, <1>2, <1>3, <1>4, <1>7, <1>8, <1>9 DEF Progress, k
<1> QED BY <1>1, <1>10 DEF AtWork

LEMMA SyncRecordBatchWorks == ASSUME IInv, SyncRecordBatch PROVE AtWork
<1>1. /\ UNCHANGED <<table, writes, late, syncing, batch_mode, version, file, target,
                     seen, raised, clock, crashes>>
      /\ syncing /\ batch_mode
  BY DEF SyncRecordBatch, database, history
<1>2. PICK chunk \in SUBSET cursor :
          /\ IsFront(chunk, cursor) /\ cursor' = cursor \ chunk
          /\ replication_key_value' = LastKey(chunk)
          /\ WriteBatch(chunk, State(version, replication_key_value'))
  BY DEF SyncRecordBatch
<1> DEFINE k    == replication_key_value'
           hand == buffer \cup chunk
           m    == Batch(hand)
           st   == State(version, k)
           full == Cardinality(hand) >= batch_size
           more == IF full THEN << m, st >> ELSE << >>
<1>3. /\ version \in Nat /\ pipe \in Seq(Message) /\ hand \subseteq RowVersion
      /\ replication_key_value \in 0 .. MaxKey /\ MaxKey \in Nat
      /\ \A c \in chunk : c.key \in 0 .. MaxKey
  BY <1>1, SizesAssumption DEF IInv, ProcessOK, PipeOK, RowVersion, Keys, None
<1>4. Moves(chunk, k) /\ k \in 0 .. MaxKey
  <2> DEFINE keys == {c.key : c \in chunk} \ {None}
  <2>1. CASE keys = {}
    BY <1>2, <1>3, <2>1 DEF LastKey, Moves
  <2>2. CASE keys # {}
    <3>1. keys \in SUBSET (0 .. MaxKey) /\ \A key \in keys : key # None /\ \E c \in chunk : c.key = key
      BY <1>3
    <3>2. k = SingerKey(Max(keys))
      BY <1>2, <2>2 DEF LastKey
    <3> HIDE DEF keys
    <3>3. Max(keys) \in keys
      BY <1>3, <2>2, <3>1, MaxOf
    <3>4. PICK c \in chunk : c.key = Max(keys)
      BY <3>1, <3>3
    <3>5. Max(keys) \in 0 .. MaxKey
      BY <3>1, <3>3
    <3>6. k \in 0 .. MaxKey
      BY <3>2, <3>5, SingerKeyType
    <3>7. c.key # None /\ k = SingerKey(c.key)
      BY <3>1, <3>2, <3>3, <3>4
    <3> QED BY <1>1, <3>6, <3>7 DEF Moves
  <2> QED BY <2>1, <2>2
<1> HIDE DEF k
<1>5. /\ m \in Message /\ IsData(m) /\ m.rows = hand /\ m.version = None /\ m.type = "BATCH"
      /\ st \in Message /\ st.type = "STATE" /\ st.version = version /\ st.key = k
  BY <1>3, <1>4 DEF Batch, State, Message, IsData, None
<1>6. IF full THEN buffer' = {} /\ pipe' = pipe \o << m, st >> ELSE buffer' = hand /\ pipe' = pipe
  BY <1>2 DEF WriteBatch, k
<1> HIDE DEF m, st, full
<1>7. pipe' = pipe \o more
  BY <1>3, <1>6, ConcatEmptySeq
<1>8. CASE full
  <2>1. more = << m, st >>
    BY <1>8
  <2> HIDE DEF more
  <2>2. Delivers(more, m.rows, k) /\ \A d \in m.rows : InData(d, more, Len(more))
    BY <1>5, <2>1, DataThenState
  <2>3. Progress(chunk, more, k)
    BY <1>1, <1>2, <1>4, <1>5, <1>6, <1>7, <1>8, <2>2 DEF Progress, k
  <2> QED BY <1>1, <2>3 DEF AtWork
<1>9. CASE ~full
  <2>1. more = << >> /\ Len(more) = 0 /\ more \in Seq(Message)
    BY <1>9
  <2> HIDE DEF more
  <2>2. Progress(chunk, more, k)
    BY <1>1, <1>2, <1>4, <1>6, <1>7, <1>9, <2>1 DEF Progress, Delivers, k
  <2> QED BY <1>1, <2>2 DEF AtWork
<1> QED BY <1>8, <1>9

LEMMA FinishSyncWorks == ASSUME IInv, FinishSync PROVE AtWork
<1>1. /\ UNCHANGED <<table, writes, late, file, target, seen, raised, clock, crashes>>
      /\ syncing /\ cursor = {} /\ NoProcess
      /\ pipe' = pipe \o IfAny(buffer, << Batch(buffer) >>)
                      \o << State(version, replication_key_value) >>
  BY DEF FinishSync, database, history
<1> DEFINE k    == replication_key_value
           m    == Batch(buffer)
           st   == State(version, k)
           more == IF buffer = {} THEN << st >> ELSE << m, st >>
<1>2. /\ version \in Nat /\ pipe \in Seq(Message) /\ buffer \subseteq RowVersion
      /\ k \in 0 .. MaxKey
  BY DEF IInv, ProcessOK, PipeOK
<1>3. /\ m \in Message /\ IsData(m) /\ m.rows = buffer /\ m.version = None /\ m.type = "BATCH"
      /\ st \in Message /\ st.type = "STATE" /\ st.version = version /\ st.key = k
  BY <1>2 DEF Batch, State, Message, IsData, None
<1>4. pipe' = pipe \o more
  <2>1. pipe' = (pipe \o IfAny(buffer, << m >>)) \o << st >>
    BY <1>1
  <2> HIDE DEF m, st
  <2>2. CASE buffer = {}
    BY <1>2, <2>1, <2>2, ConcatEmptySeq DEF IfAny
  <2>3. CASE buffer # {}
    <3>1. (pipe \o << m >>) \o << st >> = pipe \o << m, st >>
      <4>1. pipe \in Seq(Message) /\ m \in Message /\ st \in Message
        BY <1>2, <1>3
      <4> QED BY <4>1, OneAfterAnother
    <3> QED BY <2>1, <2>3, <3>1 DEF IfAny
  <2> QED BY <2>2, <2>3
<1> HIDE DEF m, st
<1>5. IsFront({}, cursor) /\ cursor' = cursor \ {}
  BY <1>1 DEF IsFront, NoProcess
<1>6. CASE buffer = {}
  <2>1. more = << st >> /\ Len(more) = 1 /\ more[1] = st /\ more \in Seq(Message)
    BY <1>3, <1>6
  <2> HIDE DEF more
  <2>2. \A i \in 1 .. Len(more) : more[i] = st
    BY <2>1
  <2>3. Progress({}, more, k)
    BY <1>1, <1>3, <1>4, <1>5, <1>6, <2>1, <2>2 DEF Progress, Moves, Delivers, IsData
  <2> QED BY <1>1, <2>3 DEF AtWork
<1>7. CASE buffer # {}
  <2>1. more = << m, st >>
    BY <1>7
  <2> HIDE DEF more
  <2>2. Delivers(more, buffer, k) /\ \A d \in buffer : InData(d, more, Len(more))
    BY <1>3, <2>1, DataThenState
  <2>3. buffer \cup {} = buffer
    OBVIOUS
  <2>4. Progress({}, more, k)
    BY <1>1, <1>4, <1>5, <2>2, <2>3 DEF Progress, Moves
  <2> QED BY <1>1, <2>4 DEF AtWork
<1> QED BY <1>6, <1>7

-----------------------------------------------------------------------------
(***************************************************************************)
(* Crashes and the target.                                                 *)
(***************************************************************************)

LEMMA CrashInv == ASSUME IInv, Crash, pipe' = pipe \/ pipe' = << >> PROVE IInv'
<1>1. /\ UNCHANGED <<table, writes, late, file, target, seen, raised, clock>>
      /\ cursor' = {} /\ buffer' = {} /\ version' = 0 /\ replication_key_value' = 0
      /\ batch_mode' = FALSE /\ syncing' = FALSE
  BY DEF Crash, NoProcess, database, None
<1>2. TableOK'
  BY <1>1 DEF IInv, TableOK
<1>3. ProcessOK'
  <2>1. Current(cursor)' /\ Current(buffer)'
    BY <1>1 DEF Current
  <2>2. batch_mode' \in BOOLEAN /\ syncing' \in BOOLEAN
    BY <1>1
  <2>3. replication_key_value' \in 0 .. MaxKey /\ replication_key_value' <= seen' /\ version' \in Nat
    BY <1>1, SizesAssumption DEF IInv, TableOK
  <2> QED BY <1>1, <2>1, <2>2, <2>3 DEF ProcessOK
<1>4. Len(pipe') = 0 \/ pipe' = pipe
  OBVIOUS
<1>5. PipeOK'
  <2>1. pipe' \in Seq(Message)
    <3>1. << >> \in Seq(Message) /\ pipe \in Seq(Message)
      BY DEF IInv, PipeOK
    <3> QED BY <3>1
  <2>2. \A i \in 1 .. Len(pipe') : /\ IsData(pipe'[i]) => Current(pipe'[i].rows)
                                   /\ pipe'[i].type = "STATE" => pipe'[i].key <= seen
    BY <1>4 DEF IInv, PipeOK
  <2> QED BY <1>1, <2>1, <2>2 DEF PipeOK, IsData, Current, Below, Punctual
<1>6. VersionOK'
  BY <1>1, <1>4 DEF IInv, VersionOK
<1>7. GapOK'
  <2> SUFFICES ASSUME ~raised PROVE GapOK'
    BY <1>1 DEF GapOK
  <2>1. \A r \in Rows : Below(r, file.key)' => UpToDate(r)'
    BY <1>1 DEF IInv, GapOK, Below, Punctual, UpToDate
  <2>2. \A i \in 1 .. Len(pipe'), r \in Rows :
            pipe'[i].type = "STATE" /\ Below(r, pipe'[i].key) =>
                UpToDate(r) \/ \E j \in 1 .. i - 1 : Carries(pipe'[j], r)
    BY <1>4 DEF IInv, GapOK
  <2> QED BY <1>1, <2>1, <2>2 DEF GapOK, Below, Punctual, UpToDate, Carries, Has
<1> QED BY <1>2, <1>3, <1>5, <1>6, <1>7 DEF IInv

\* The messages before the pipe's first activation are of its version.
LEMMA ActivationOfCurrent ==
    ASSUME IInv, pipe # << >>, pipe[1].type = "ACTIVATE_VERSION"
    PROVE  \A r \in Rows : target[r].version \in {None, pipe[1].version}
<1>1. 1 \in 1 .. Len(pipe)
  BY DEF IInv, PipeOK
<1> QED BY <1>1 DEF IInv, VersionOK

Arrived(m, r) == {c.write : c \in {d \in m.rows : d.row = r}}

\* What the target makes of a message; an activation changes nothing.
LEMMA TargetEffect ==
    ASSUME IInv, TargetHandles, NEW m, m = pipe[1]
    PROVE  /\ UNCHANGED <<table, writes, late, syncing, batch_mode, version, replication_key_value,
                          cursor, buffer, rows_saved, seen, raised, clock, crashes>>
           /\ pipe # << >> /\ pipe' = Tail(pipe)
           /\ pipe \in Seq(Message) /\ Len(pipe) \in Nat \ {0} /\ m \in Message
           /\ pipe' \in Seq(Message) /\ Len(pipe') = Len(pipe) - 1
           /\ \A i \in 1 .. Len(pipe') : i + 1 \in 1 .. Len(pipe) /\ pipe'[i] = pipe[i + 1]
           /\ m.type = "STATE" => file' = [version |-> m.version, key |-> m.key]
           /\ m.type # "STATE" => file' = file
           /\ IsData(m) =>
                  target' = [r \in Rows |-> IF Arrived(m, r) = {} THEN target[r]
                                            ELSE [write |-> Max(Arrived(m, r)), version |-> m.version]]
           /\ ~IsData(m) => target' = target
           /\ \A r \in Rows : IsData(m) /\ Arrived(m, r) # {} =>
                  Max(Arrived(m, r)) \in Arrived(m, r) /\ Max(Arrived(m, r)) \in Nat
<1>1. /\ UNCHANGED <<table, writes, late, syncing, batch_mode, version, replication_key_value,
                     cursor, buffer, rows_saved, seen, raised, clock, crashes>>
      /\ pipe # << >> /\ pipe' = Tail(pipe)
  BY DEF TargetHandles, database, process, history
<1>2. /\ pipe \in Seq(Message) /\ Len(pipe) \in Nat \ {0} /\ m \in Message
      /\ pipe' \in Seq(Message) /\ Len(pipe') = Len(pipe) - 1 /\ m = Head(pipe)
      /\ \A i \in 1 .. Len(pipe') : i + 1 \in 1 .. Len(pipe) /\ pipe'[i] = pipe[i + 1]
  <2>1. pipe \in Seq(Message)
    BY DEF IInv, PipeOK
  <2> QED BY <1>1, <2>1
<1>3. m.type \in {"STATE", "RECORD", "BATCH", "ACTIVATE_VERSION"}
  BY <1>2 DEF Message
<1>4. /\ m.type = "STATE" =>
             file' = [version |-> m.version, key |-> m.key] /\ target' = target
      /\ IsData(m) =>
             /\ target' = [r \in Rows |-> IF Arrived(m, r) = {} THEN target[r]
                                          ELSE [write |-> Max(Arrived(m, r)), version |-> m.version]]
             /\ file' = file
      /\ m.type = "ACTIVATE_VERSION" =>
             /\ target' = [r \in Rows |-> IF target[r].version \in {None, m.version} THEN target[r]
                                          ELSE [write |-> None, version |-> None]]
             /\ file' = file
  <2>1. CASE m.type = "STATE"
    BY <1>2, <2>1 DEF TargetHandles, IsData
  <2>2. CASE m.type \in {"RECORD", "BATCH"}
    BY <1>2, <2>2 DEF TargetHandles, IsData, Arrived
  <2>3. CASE m.type = "ACTIVATE_VERSION"
    BY <1>2, <2>3 DEF TargetHandles, IsData
  <2> QED BY <1>3, <2>1, <2>2, <2>3
<1>5. m.type = "ACTIVATE_VERSION" => target' = target
  <2>1. target \in [Rows -> [write : Nat, version : Nat]]
    BY DEF IInv, TableOK
  <2>2. m.type = "ACTIVATE_VERSION" => \A r \in Rows : target[r].version \in {None, m.version}
    BY <1>1, ActivationOfCurrent
  <2> QED BY <1>4, <2>1, <2>2
<1>6. ASSUME NEW r \in Rows, IsData(m), Arrived(m, r) # {}
      PROVE  Max(Arrived(m, r)) \in Arrived(m, r) /\ Max(Arrived(m, r)) \in Nat
  <2>1. m.rows \subseteq RowVersion /\ MaxWrites \in Nat
    BY <1>2, <1>6, BoundsAssumption DEF Message, IsData
  <2>2. \A c \in m.rows : c.write \in 0 .. MaxWrites
    BY <2>1 DEF RowVersion
  <2>3. Arrived(m, r) \in SUBSET (0 .. MaxWrites)
    BY <2>2 DEF Arrived
  <2>4. Max(Arrived(m, r)) \in Arrived(m, r)
    BY <1>6, <2>1, <2>3, MaxOf
  <2> QED BY <2>1, <2>3, <2>4
<1> QED BY <1>1, <1>2, <1>3, <1>4, <1>5, <1>6 DEF IsData

LEMMA TargetHandlesInv == ASSUME IInv, TargetHandles PROVE IInv'
<1> DEFINE m == pipe[1]
<1>1. /\ UNCHANGED <<table, writes, late, syncing, batch_mode, version, replication_key_value,
                     cursor, buffer, rows_saved, seen, raised, clock, crashes>>
      /\ pipe # << >> /\ pipe' = Tail(pipe)
  BY TargetEffect
<1>2. /\ pipe \in Seq(Message) /\ Len(pipe) \in Nat \ {0} /\ m \in Message
      /\ pipe' \in Seq(Message) /\ Len(pipe') = Len(pipe) - 1
      /\ \A i \in 1 .. Len(pipe') : i + 1 \in 1 .. Len(pipe) /\ pipe'[i] = pipe[i + 1]
  BY TargetEffect
<1>3. m.type \in {"STATE", "RECORD", "BATCH", "ACTIVATE_VERSION"}
  BY <1>2 DEF Message
<1>4. /\ m.type = "STATE" => file' = [version |-> m.version, key |-> m.key]
      /\ m.type # "STATE" => file' = file
      /\ IsData(m) =>
             target' = [r \in Rows |-> IF Arrived(m, r) = {} THEN target[r]
                                       ELSE [write |-> Max(Arrived(m, r)), version |-> m.version]]
      /\ ~IsData(m) => target' = target
  BY TargetEffect
<1>5. /\ target \in [Rows -> [write : Nat, version : Nat]] /\ MaxWrites \in Nat
      /\ file \in [version : Nat, key : 0 .. MaxKey] /\ file.key <= seen
      /\ seen \in 0 .. MaxKey /\ MaxKey \in Nat
      /\ \A r \in Rows : table[r].key \in 0 .. MaxKey
  BY SizesAssumption, BoundsAssumption DEF IInv, TableOK, Keys, None
<1>7. ASSUME NEW r \in Rows, IsData(m), Arrived(m, r) # {}
      PROVE  Max(Arrived(m, r)) \in Arrived(m, r) /\ Max(Arrived(m, r)) \in Nat
  BY <1>7, TargetEffect
<1>8. TableOK'
  <2>1. target' \in [Rows -> [write : Nat, version : Nat]]
    <3>1. CASE IsData(m)
      <4>1. m.version \in Nat
        BY <1>2, <3>1 DEF Message, IsData
      <4> HIDE DEF m
      <4>2. ASSUME NEW r \in Rows
            PROVE  (IF Arrived(m, r) = {} THEN target[r]
                    ELSE [write |-> Max(Arrived(m, r)), version |-> m.version])
                       \in [write : Nat, version : Nat]
        BY <1>5, <1>7, <3>1, <4>1
      <4> QED BY <1>4, <3>1, <4>2
    <3>2. CASE ~IsData(m)
      BY <1>3, <1>4, <1>5, <3>2 DEF IsData
    <3> QED BY <3>1, <3>2
  <2>2. file' \in [version : Nat, key : 0 .. MaxKey] /\ file'.key <= seen
    <3>1. CASE m.type = "STATE"
      <4>1. m.version \in Nat /\ m.key \in 0 .. MaxKey
        BY <1>2, <3>1 DEF Message
      <4>2. m.key <= seen
        BY <1>2, <3>1 DEF IInv, PipeOK
      <4> HIDE DEF m
      <4> QED BY <1>4, <3>1, <4>1, <4>2
    <3>2. CASE m.type # "STATE"
      BY <1>3, <1>4, <1>5, <3>2 DEF IsData
    <3> QED BY <3>1, <3>2
  <2> QED BY <1>1, <2>1, <2>2 DEF IInv, TableOK
  \* The target keeps up with a row below the highest key that was read.
<1>9. ASSUME NEW r \in Rows, Below(r, seen), UpToDate(r) \/ Carries(m, r)
      PROVE  UpToDate(r)'
  <2>1. CASE IsData(m)
    <3>1. \A w \in Arrived(m, r) : w = table[r].write
      BY <1>2, <1>9, <2>1 DEF IInv, PipeOK, Current, Arrived
    <3>2. CASE Arrived(m, r) = {}
      <4>1. ~Carries(m, r)
        BY <3>2 DEF Carries, Has, Arrived
      <4>2. target'[r] = target[r]
        BY <1>4, <2>1, <3>2
      <4> QED BY <1>1, <1>9, <4>1, <4>2 DEF UpToDate
    <3>3. CASE Arrived(m, r) # {}
      <4>1. Max(Arrived(m, r)) = table[r].write
        BY <1>7, <2>1, <3>1, <3>3
      <4>2. target'[r].write = Max(Arrived(m, r))
        <5> HIDE DEF m
        <5> QED BY <1>4, <2>1, <3>3
      <4> QED BY <1>1, <4>1, <4>2 DEF UpToDate
    <3> QED BY <3>2, <3>3
  <2>2. CASE ~IsData(m)
    <3>1. target' = target
      BY <1>3, <1>4, <2>2
    <3> QED BY <1>1, <1>9, <2>2, <3>1 DEF UpToDate, Carries
  <2> QED BY <2>1, <2>2
<1>10. ProcessOK'
  BY <1>1 DEF IInv, ProcessOK, Current, Below, Punctual, SingerKey
<1>11. PipeOK'
  <2>1. \A i \in 1 .. Len(pipe') : /\ IsData(pipe'[i]) => Current(pipe'[i].rows)
                                   /\ pipe'[i].type = "STATE" => pipe'[i].key <= seen
    BY <1>2 DEF IInv, PipeOK
  <2>2. \A rows : Current(rows)' <=> Current(rows)
    BY <1>1 DEF Current, Below, Punctual
  <2>3. \A i \in 1 .. Len(pipe') : /\ (IsData(pipe[i]) => Current(pipe[i].rows))'
                                   /\ pipe'[i].type = "STATE" => pipe'[i].key <= seen'
    BY <1>1, <2>1, <2>2 DEF IsData
  <2> QED BY <1>2, <2>3 DEF PipeOK, Message, RowVersion
<1>12. VersionOK'
  <2>1. 1 \in 1 .. Len(pipe)
    BY <1>2
  <2>2. /\ m.type # "BATCH" =>
               /\ m.version # None
               /\ \A i \in 1 .. Len(pipe) : pipe[i].type # "BATCH" => pipe[i].version = m.version
               /\ syncing => m.version = version
        /\ m.type = "BATCH" => m.version = None
        /\ m.type # "STATE" => file.version # None
        /\ file.version # None /\ m.type # "BATCH" => m.version = file.version
    BY <1>1, <2>1 DEF IInv, VersionOK
  <2>3. file'.version # None /\ (file.version # None => file'.version = file.version)
    BY <1>3, <1>4, <2>2 DEF IsData
  <2>4. m.type = "STATE" => file'.version = m.version
    BY <1>4
  <2>5. \A r \in Rows : target'[r].version \in {None, file'.version}
    <3> SUFFICES ASSUME NEW r \in Rows PROVE target'[r].version \in {None, file'.version}
      OBVIOUS
    <3>1. target[r].version \in {None, file'.version}
      BY <2>3 DEF IInv, VersionOK
    <3>2. CASE IsData(m)
      <4>1. m.version \in {None, file'.version}
        BY <2>2, <2>3, <3>2 DEF IsData
      <4>2. target'[r] = target[r] \/ target'[r].version = m.version
        <5> HIDE DEF m
        <5> QED BY <1>4, <3>2
      <4> QED BY <3>1, <4>1, <4>2
    <3>3. CASE ~IsData(m)
      BY <1>3, <1>4, <3>1, <3>3 DEF IsData
    <3> QED BY <3>2, <3>3
  <2>6. \A i \in 1 .. Len(pipe) :
            IF pipe[i].type = "BATCH" THEN pipe[i].version = None
            ELSE /\ pipe[i].version # None /\ pipe[i].version = file'.version
                 /\ syncing => pipe[i].version = version
    BY <1>3, <2>1, <2>2, <2>3, <2>4 DEF IInv, VersionOK
  <2>7. syncing => version # None /\ version = file'.version
    BY <1>3, <2>2, <2>3, <2>4 DEF IInv, VersionOK
  <2> QED BY <1>1, <1>2, <2>3, <2>5, <2>6, <2>7 DEF VersionOK
<1>13. GapOK'
  <2> SUFFICES ASSUME ~raised PROVE GapOK'
    BY <1>1 DEF GapOK
  <2>1. /\ \A r, b : Below(r, b)' <=> Below(r, b)
        /\ \A r, rows : Has(rows, r) <=> \E c \in rows : c.row = r /\ c.write = table'[r].write
    BY <1>1 DEF Below, Punctual, Has
  <2>2. ASSUME NEW r \in Rows, NEW b \in 0 .. seen, Below(r, b)
        PROVE  Below(r, seen)
    BY <1>5, <2>2 DEF Below
  <2>3. ASSUME NEW r \in Rows, Below(r, file'.key)
        PROVE  UpToDate(r)'
    <3>1. CASE m.type = "STATE"
      <4>1. 1 \in 1 .. Len(pipe) /\ m.key \in 0 .. seen /\ file'.key = m.key
        <5>1. 1 \in 1 .. Len(pipe)
          BY <1>2
        <5>2. m.key \in 0 .. MaxKey
          BY <1>2, <3>1 DEF Message
        <5>3. m.key <= seen
          BY <3>1, <5>1 DEF IInv, PipeOK
        <5>4. file'.key = m.key
          BY <1>4, <3>1
        <5> QED BY <1>5, <5>1, <5>2, <5>3, <5>4
      <4>2. UpToDate(r) \/ \E j \in 1 .. 1 - 1 : Carries(pipe[j], r)
        BY <2>3, <3>1, <4>1 DEF IInv, GapOK
      <4>3. UpToDate(r)
        BY <4>2
      <4> QED BY <1>9, <2>2, <2>3, <4>1, <4>3
    <3>2. CASE m.type # "STATE"
      <4>1. file' = file
        BY <1>3, <1>4, <3>2 DEF IsData
      <4>2. UpToDate(r) /\ file.key \in 0 .. seen
        BY <1>5, <2>3, <4>1 DEF IInv, GapOK
      <4> QED BY <1>9, <2>2, <2>3, <4>1, <4>2
    <3> QED BY <3>1, <3>2
  <2>4. ASSUME NEW i \in 1 .. Len(pipe'), NEW r \in Rows,
               pipe'[i].type = "STATE", Below(r, pipe'[i].key)
        PROVE  UpToDate(r)' \/ \E j \in 1 .. i - 1 : Carries(pipe'[j], r)
    <3>1. i + 1 \in 1 .. Len(pipe) /\ pipe'[i] = pipe[i + 1] /\ (i + 1) - 1 = i
      BY <1>2
    <3>2. UpToDate(r) \/ \E j \in 1 .. i : Carries(pipe[j], r)
      BY <2>4, <3>1 DEF IInv, GapOK
    <3>3. Below(r, seen)
      <4>1. pipe'[i].key <= seen /\ pipe'[i] \in Message
        BY <1>2, <2>4, <3>1 DEF IInv, PipeOK
      <4>2. pipe'[i].key \in 0 .. MaxKey
        BY <2>4, <4>1 DEF Message
      <4> QED BY <1>5, <2>2, <2>4, <4>1, <4>2
    <3>4. ASSUME NEW j \in 1 .. i, Carries(pipe[j], r), j # 1
          PROVE  Carries(pipe'[j - 1], r) /\ j - 1 \in 1 .. i - 1
      <4>1. j - 1 \in 1 .. Len(pipe') /\ j - 1 \in 1 .. i - 1 /\ (j - 1) + 1 = j
        BY <1>2, <3>4
      <4> QED BY <1>2, <3>4, <4>1
    <3> QED BY <1>9, <3>2, <3>3, <3>4
  <2>5. ASSUME NEW r \in Rows, Safe(r), Below(r, seen)
        PROVE  Safe(r)'
    <3>1. CASE UpToDate(r)
      BY <1>9, <2>5, <3>1 DEF Safe
    <3>2. CASE Has(buffer, r)
      BY <1>1, <3>2 DEF Safe, Has
    <3>3. CASE \E j \in 1 .. Len(pipe) : Carries(pipe[j], r)
      <4>1. PICK j \in 1 .. Len(pipe) : Carries(pipe[j], r)
        BY <3>3
      <4>2. CASE j = 1
        BY <1>9, <2>5, <4>1, <4>2 DEF Safe
      <4>3. CASE j # 1
        <5>1. j - 1 \in 1 .. Len(pipe') /\ (j - 1) + 1 = j
          BY <1>2, <4>3
        <5>2. Carries(pipe'[j - 1], r)
          BY <1>2, <4>1, <5>1
        <5>3. Carries(pipe[j - 1], r)'
          BY <2>1, <5>2 DEF Carries, IsData, Has
        <5> QED BY <5>1, <5>3 DEF Safe
      <4> QED BY <4>2, <4>3
    <3> QED BY <2>5, <3>1, <3>2, <3>3 DEF Safe
  <2>6. \A r \in Rows : syncing /\ Below(r, replication_key_value) => Safe(r)'
    <3>1. replication_key_value \in 0 .. seen
      BY <1>5 DEF IInv, ProcessOK
    <3> QED BY <2>2, <2>5, <3>1 DEF IInv, GapOK
  <2>7. ASSUME NEW r \in Rows, NEW c \in cursor, Below(r, SingerKey(c.key))
        PROVE  Safe(r)' \/ Has(cursor, r)'
    <3>1. SingerKey(c.key) \in 0 .. seen
      <4>1. c.key \in 0 .. MaxKey
        BY SizesAssumption DEF IInv, ProcessOK, RowVersion, Keys, None
      <4> QED BY <1>5, <4>1, SingerKeyType DEF IInv, ProcessOK
    <3>2. Safe(r) \/ Has(cursor, r)
      BY <2>7 DEF IInv, GapOK
    <3> QED BY <1>1, <2>1, <2>2, <2>5, <2>7, <3>1, <3>2 DEF Has
  <2>8. \A r \in Rows : Below(r, file.key)' => UpToDate(r)'
    BY <1>1, <2>3 DEF Below, Punctual
  <2>9. ASSUME NEW i \in 1 .. Len(pipe'), NEW r \in Rows,
               pipe'[i].type = "STATE", Below(r, pipe[i].key)'
        PROVE  UpToDate(r)' \/ \E j \in 1 .. i - 1 : Carries(pipe[j], r)'
    <3>1. Below(r, pipe'[i].key)
      BY <1>1, <2>9 DEF Below, Punctual
    <3>2. \A j \in 1 .. i - 1 : Carries(pipe'[j], r) => Carries(pipe[j], r)'
      BY <1>1 DEF Carries, IsData, Has
    <3> QED BY <2>4, <2>9, <3>1, <3>2
  <2>10. \A r \in Rows : (syncing /\ Below(r, replication_key_value))' => Safe(r)'
    BY <1>1, <2>6 DEF Below, Punctual
  <2>11. ASSUME NEW r \in Rows, NEW c \in cursor', Below(r, SingerKey(c.key))'
         PROVE  Safe(r)' \/ Has(cursor, r)'
    BY <1>1, <2>7, <2>11 DEF Below, Punctual, SingerKey
  <2>12. \A c \in cursor' : (SingerKey(c.key) <= c.key)'
    BY <1>1 DEF IInv, GapOK, SingerKey
  <2> QED BY <2>8, <2>9, <2>10, <2>11, <2>12 DEF GapOK
<1> QED BY <1>8, <1>10, <1>11, <1>12, <1>13 DEF IInv

LEMMA StutterInv == ASSUME IInv, UNCHANGED vars PROVE IInv'
<1>1. UNCHANGED <<table, writes, late, syncing, batch_mode, version, replication_key_value, cursor,
                  buffer, rows_saved, pipe, file, target, seen, raised, clock, crashes>>
  BY DEF vars, database, process, downstream, history
<1>2. TableOK' /\ ProcessOK'
  BY <1>1 DEF IInv, TableOK, ProcessOK, Current, Below, Punctual, SingerKey
<1>3. PipeOK'
  BY <1>1 DEF IInv, PipeOK, IsData, Current, Below, Punctual
<1>4. VersionOK'
  BY <1>1 DEF IInv, VersionOK
<1>5. GapOK'
  BY <1>1 DEF IInv, GapOK, Below, Punctual, UpToDate, Safe, Carries, Has, SingerKey
<1> QED BY <1>2, <1>3, <1>4, <1>5 DEF IInv

LEMMA AtWorkInv == ASSUME IInv, AtWork PROVE IInv'
BY ProgressInv DEF AtWork

LEMMA NextInv == IInv /\ [Next]_vars => IInv'
<1> SUFFICES ASSUME IInv, [Next]_vars PROVE IInv'
  OBVIOUS
<1>1. CASE SyncFails
  <2>1. Crash /\ pipe' = pipe
    BY <1>1 DEF SyncFails
  <2> QED BY <2>1, CrashInv
<1>2. CASE PipelineCrash
  <2>1. Crash /\ pipe' = << >>
    BY <1>2 DEF PipelineCrash
  <2> QED BY <2>1, CrashInv
<1> QED BY <1>1, <1>2, WriteInv, StartSyncInv, SyncRecordWorks, SyncRecordBatchWorks, FinishSyncWorks,
           AtWorkInv, TargetHandlesInv, StutterInv DEF Next

-----------------------------------------------------------------------------
(***************************************************************************)
(* Numbers that only grow: the writes rows come from, the versions handed  *)
(* out, of which there are no more than crashes and one, and the rows of a *)
(* batch file.                                                             *)
(***************************************************************************)

Written(rows) == \A c \in rows : c.write <= writes

WritesOK ==
    /\ \A r \in Rows : table[r].write <= writes /\ target[r].write <= writes
    /\ Written(cursor) /\ Written(buffer)
    /\ \A i \in 1 .. Len(pipe) : IsData(pipe[i]) => Written(pipe[i].rows)

\* A version is new only if no STATE message with one has been handled, and
\* none is lost but by a crash.
ClockOK ==
    /\ version <= clock /\ file.version <= clock
    /\ \A i \in 1 .. Len(pipe) : pipe[i].version <= clock
    /\ crashes \in 0 .. MaxCrashes
    /\ clock <= 1 + crashes
    /\ file.version = None /\ ~syncing /\ pipe = << >> => clock <= crashes

BufferOK ==
    /\ Cardinality(buffer) < batch_size
    /\ rows_saved \in 0 .. STATE_UPDATE_PERIOD - 1

LEMMA RowVersionFinite == IsFiniteSet(RowVersion)
<1> DEFINE P == Rows \X ((0 .. MaxKey) \X (1 .. MaxWrites))
           f == [p \in P |-> [row |-> p[1], key |-> p[2][1], write |-> p[2][2]]]
<1>1. IsFiniteSet(P)
  <2>1. IsFiniteSet(0 .. MaxKey) /\ IsFiniteSet(1 .. MaxWrites)
    BY SizesAssumption, BoundsAssumption, FS_Interval
  <2>2. IsFiniteSet((0 .. MaxKey) \X (1 .. MaxWrites))
    BY <2>1, FS_Product
  <2> QED BY <2>2, RowsAssumption, FS_Product
<1>2. RowVersion = [row : Rows, key : 0 .. MaxKey, write : 1 .. MaxWrites]
  <2>1. Keys \cup {None} = 0 .. MaxKey
    BY SizesAssumption DEF Keys, None
  <2> QED BY <2>1 DEF RowVersion
<1>3. f \in Surjection(P, RowVersion)
  <2>1. f \in [P -> RowVersion]
    BY <1>2
  <2>2. ASSUME NEW c \in RowVersion PROVE \E p \in P : f[p] = c
    <3> DEFINE p == <<c.row, <<c.key, c.write>>>>
    <3>1. p \in P /\ f[p] = c
      BY <1>2
    <3> QED BY <3>1
  <2> HIDE DEF f, P
  <2> QED BY <2>1, <2>2 DEF Surjection
<1> HIDE DEF f, P
<1> QED BY <1>1, <1>3, FS_Surjection

LEMMA FewRows ==
    ASSUME NEW rows \in SUBSET RowVersion
    PROVE  Cardinality(rows) \in Nat
BY RowVersionFinite, FS_Subset, FS_CardinalityType

LEMMA BufferStep == ASSUME IInv, BufferOK, [Next]_vars PROVE BufferOK'
<1>1. STATE_UPDATE_PERIOD \in Nat \ {0} /\ batch_size \in Nat \ {0} /\ Cardinality({}) = 0
  BY SizesAssumption, FS_EmptySet
<1>2. UNCHANGED <<buffer, rows_saved>> => BufferOK'
  BY DEF BufferOK
<1>3. NoProcess => BufferOK'
  BY <1>1 DEF NoProcess, BufferOK
<1>4. CASE SyncRecord
  <2>1. rows_saved' = (rows_saved + 1) % STATE_UPDATE_PERIOD /\ buffer' = buffer
    BY <1>4 DEF SyncRecord
  <2>2. rows_saved + 1 \in Nat
    BY <1>1 DEF BufferOK
  <2>3. rows_saved' \in 0 .. STATE_UPDATE_PERIOD - 1
    BY <1>1, <2>1, <2>2
  <2> QED BY <2>1, <2>3 DEF BufferOK
<1>5. CASE SyncRecordBatch
  <2>1. rows_saved' = rows_saved
    BY <1>5 DEF SyncRecordBatch
  <2>2. PICK chunk \in SUBSET cursor, m \in {State(version, replication_key_value')} :
            WriteBatch(chunk, m)
    BY <1>5 DEF SyncRecordBatch
  <2>3. buffer \cup chunk \in SUBSET RowVersion
    BY DEF IInv, ProcessOK
  <2>4. Cardinality(buffer \cup chunk) \in Nat
    BY <2>3, FewRows
  <2>5. \/ buffer' = {}
        \/ buffer' = buffer \cup chunk /\ ~(Cardinality(buffer \cup chunk) >= batch_size)
    BY <2>2 DEF WriteBatch
  <2>6. Cardinality(buffer') < batch_size
    BY <1>1, <2>4, <2>5
  <2> QED BY <2>1, <2>6 DEF BufferOK
<1> QED BY <1>2, <1>3, <1>4, <1>5
        DEF Next, vars, process, Write, StartSync, FinishSync, SyncFails, PipelineCrash, Crash,
            TargetHandles

LEMMA ClockStep == ASSUME IInv, ClockOK, [Next]_vars PROVE ClockOK'
<1>1. /\ clock \in Nat /\ version \in Nat /\ file \in [version : Nat, key : 0 .. MaxKey]
      /\ crashes \in Nat /\ MaxCrashes \in Nat /\ pipe \in Seq(Message) /\ Len(pipe) \in Nat
  BY BoundsAssumption DEF IInv, TableOK, ProcessOK, PipeOK, ClockOK
<1>2. CASE StartSync
  <2>1. /\ ~syncing /\ pipe = << >> /\ version' = PickVersion(file) /\ clock' = Max({clock, version'})
        /\ syncing' = TRUE /\ file' = file /\ crashes' = crashes
        /\ pipe' = << State(version', file.key), Activate(version') >>
    BY <1>2 DEF StartSync
  <2>2. version' \in Nat /\ clock' \in Nat /\ version' <= clock' /\ clock <= clock'
        /\ (clock' = clock \/ (file.version = None /\ clock' = clock + 1))
    <3>1. version' = file.version \/ (file.version = None /\ version' = clock + 1)
      BY <2>1 DEF PickVersion
    <3>2. version' \in Nat
      BY <1>1, <3>1
    <3>3. /\ Max({clock, version'}) \in {clock, version'}
          /\ clock <= Max({clock, version'}) /\ version' <= Max({clock, version'})
      <4>1. clock \in Nat
        BY <1>1
      <4> QED BY <3>2, <4>1, MaxOfTwo
    <3>4. clock' \in {clock, version'} /\ clock <= clock' /\ version' <= clock'
      BY <2>1, <3>3
    <3> QED BY <1>1, <3>1, <3>2, <3>4 DEF ClockOK
  <2>3. Len(pipe') = 2 /\ pipe'[1].version = version' /\ pipe'[2].version = version'
    BY <2>1 DEF State, Activate
  <2>4. \A i \in 1 .. Len(pipe') : pipe'[i].version <= clock'
    <3>1. \A i \in 1 .. Len(pipe') : i = 1 \/ i = 2
      BY <2>3
    <3> QED BY <2>2, <2>3, <3>1
  <2>5. clock' <= 1 + crashes
    BY <1>1, <2>1, <2>2 DEF ClockOK
  <2>6. file.version <= clock'
    BY <1>1, <2>2 DEF ClockOK
  <2> QED BY <2>1, <2>2, <2>4, <2>5, <2>6 DEF ClockOK
<1>3. CASE AtWork
  <2>1. syncing /\ UNCHANGED <<file, clock, crashes>>
    BY <1>3 DEF AtWork
  <2>2. PICK handled, more, k : Progress(handled, more, k)
    BY <1>3 DEF AtWork
  <2>3. /\ more \in Seq(Message) /\ pipe' = pipe \o more /\ Len(more) \in Nat
        /\ \A i \in 1 .. Len(more) : more[i].version \in {None, version}
        /\ version' \in {None, version}
    BY <2>2 DEF Progress, Delivers, NoProcess
  <2>4. \A i \in 1 .. Len(pipe') : pipe'[i].version <= clock
    <3>1. \A i \in 1 .. Len(pipe') : pipe'[i].version \in {pipe[j].version : j \in 1 .. Len(pipe)}
                                         \cup {None, version}
      <4>1. \A i \in 1 .. Len(pipe') :
                (i \in 1 .. Len(pipe) /\ pipe'[i] = pipe[i])
                \/ (i - Len(pipe) \in 1 .. Len(more) /\ pipe'[i] = more[i - Len(pipe)])
        BY <1>1, <2>3, Appended
      <4> QED BY <2>3, <4>1
    <3>2. \A j \in 1 .. Len(pipe) : pipe[j].version <= clock
      BY DEF ClockOK
    <3>3. None <= clock /\ version <= clock
      BY <1>1 DEF ClockOK, None
    <3>4. \A v \in {pipe[j].version : j \in 1 .. Len(pipe)} \cup {None, version} : v <= clock
      BY <3>2, <3>3
    <3> QED BY <3>1, <3>4
  <2>5. file.version = None => pipe' # << >>
    <3>1. file.version = None => Len(pipe) # 0
      BY <1>1, <2>1 DEF IInv, VersionOK
    <3>2. Len(pipe') = Len(pipe) + Len(more)
      BY <1>1, <2>3, Appended
    <3> QED BY <1>1, <2>3, <3>1, <3>2
  <2>6. version' <= clock
    BY <1>1, <2>3 DEF ClockOK, None
  <2>7. file.version <= clock /\ crashes \in 0 .. MaxCrashes /\ clock <= 1 + crashes
    BY DEF ClockOK
  <2> QED BY <2>1, <2>4, <2>5, <2>6, <2>7 DEF ClockOK
<1>4. CASE SyncFails \/ PipelineCrash
  <2>1. /\ crashes < MaxCrashes /\ crashes' = crashes + 1 /\ UNCHANGED <<file, clock>>
        /\ version' = 0 /\ (pipe' = pipe \/ pipe' = << >>)
    BY <1>4 DEF SyncFails, PipelineCrash, Crash, NoProcess, None
  <2>2. \A i \in 1 .. Len(pipe') : pipe'[i].version <= clock
    BY <2>1 DEF ClockOK
  <2> QED BY <1>1, <2>1, <2>2 DEF ClockOK
<1>5. CASE TargetHandles
  <2>1. PICK m : m = pipe[1]
    OBVIOUS
  <2>2. /\ UNCHANGED <<version, syncing, clock, crashes>>
        /\ m \in Message /\ 1 \in 1 .. Len(pipe) /\ pipe # << >>
        /\ \A i \in 1 .. Len(pipe') : i + 1 \in 1 .. Len(pipe) /\ pipe'[i] = pipe[i + 1]
        /\ m.type = "STATE" => file' = [version |-> m.version, key |-> m.key]
        /\ m.type # "STATE" => file' = file
    BY <1>5, <2>1, TargetEffect
  <2>3. file'.version <= clock
    BY <2>1, <2>2 DEF ClockOK
  <2>4. file'.version # None
    <3>1. file.version = None => m.type = "STATE"
      BY <2>1, <2>2 DEF IInv, VersionOK
    <3>2. m.type = "STATE" => m.version # None
      BY <2>1, <2>2 DEF IInv, VersionOK
    <3> QED BY <2>2, <3>1, <3>2
  <2> QED BY <2>2, <2>3, <2>4 DEF ClockOK
<1>6. CASE Write \/ UNCHANGED vars
  <2>1. UNCHANGED <<version, syncing, clock, crashes, file, pipe>>
    BY <1>6 DEF Write, vars, process, downstream, history
  <2> QED BY <2>1 DEF ClockOK
<1> QED BY <1>2, <1>3, <1>4, <1>5, <1>6, SyncRecordWorks, SyncRecordBatchWorks, FinishSyncWorks DEF Next

LEMMA WritesStep == ASSUME IInv, WritesOK, [Next]_vars PROVE WritesOK'
<1>1. /\ writes \in Nat /\ MaxWrites \in Nat /\ pipe \in Seq(Message) /\ Len(pipe) \in Nat
      /\ table \in [Rows -> [key : Keys \cup {None}, write : 0 .. MaxWrites]]
      /\ target \in [Rows -> [write : Nat, version : Nat]]
      /\ cursor \subseteq RowVersion /\ buffer \subseteq RowVersion
      /\ \A c \in RowVersion : c.write \in Nat
      /\ \A i \in 1 .. Len(pipe) : IsData(pipe[i]) => pipe[i].rows \subseteq RowVersion
  <2>1. \A m \in Message : IsData(m) => m.rows \subseteq RowVersion
    BY DEF Message, IsData
  <2>2. pipe \in Seq(Message) /\ Len(pipe) \in Nat /\ \A i \in 1 .. Len(pipe) : pipe[i] \in Message
    BY DEF IInv, PipeOK
  <2>3. \A c \in RowVersion : c.write \in Nat
    BY DEF RowVersion
  <2>4. writes \in Nat /\ MaxWrites \in Nat
    BY BoundsAssumption DEF IInv, TableOK
  <2>5. /\ table \in [Rows -> [key : Keys \cup {None}, write : 0 .. MaxWrites]]
        /\ target \in [Rows -> [write : Nat, version : Nat]]
        /\ cursor \subseteq RowVersion /\ buffer \subseteq RowVersion
    BY DEF IInv, TableOK, ProcessOK
  <2>6. \A i \in 1 .. Len(pipe) : IsData(pipe[i]) => pipe[i].rows \subseteq RowVersion
    BY <2>1, <2>2
  <2> QED BY <2>2, <2>3, <2>4, <2>5, <2>6
<1>2. CASE Write
  <2>1. /\ UNCHANGED <<cursor, buffer, pipe, target>> /\ writes' = writes + 1
        /\ \E r \in Rows, k \in Keys \cup {None} :
               table' = [table EXCEPT ![r] = [key |-> k, write |-> writes']]
    BY <1>2 DEF Write, process, downstream, history
  <2>2. \A r \in Rows : table'[r].write <= writes'
    <3>1. PICK r \in Rows, k \in Keys \cup {None} :
              table' = [table EXCEPT ![r] = [key |-> k, write |-> writes']]
      BY <2>1
    <3>2. table'[r].write = writes' /\ \A q \in Rows \ {r} : table'[q] = table[q]
      BY <1>1, <3>1
    <3>3. ASSUME NEW q \in Rows PROVE table[q].write <= writes'
      BY <1>1, <2>1 DEF WritesOK
    <3> QED BY <1>1, <2>1, <3>2, <3>3
  <2>3. \A rows \in SUBSET RowVersion : Written(rows) => \A c \in rows : c.write <= writes'
    BY <1>1, <2>1 DEF Written
  <2>4. \A r \in Rows : target[r].write <= writes'
    BY <1>1, <2>1 DEF WritesOK
  <2>5. \A i \in 1 .. Len(pipe) : IsData(pipe[i]) => \A c \in pipe[i].rows : c.write <= writes'
    BY <1>1, <2>3 DEF WritesOK
  <2> QED BY <1>1, <2>1, <2>2, <2>3, <2>4, <2>5 DEF WritesOK, Written, IsData
<1>3. CASE StartSync
  <2>1. /\ UNCHANGED <<table, writes, buffer, target>>
        /\ pipe' = << State(version', file.key), Activate(version') >>
    BY <1>3 DEF StartSync, database
  <2>2. PICK limit \in Limits : cursor' \in Results(file.key, limit)
    BY <1>3 DEF StartSync
  <2>3. \A c \in cursor' : c.row \in Rows /\ c.write = table[c.row].write
    <3>1. cursor' \subseteq RowVersion /\ \A c \in cursor' : c.write = table[c.row].write
      BY <2>2, ResultsOf DEF IInv
    <3> QED BY <3>1 DEF RowVersion
  <2>4. Written(cursor)'
    BY <2>1, <2>3 DEF WritesOK, Written
  <2>5. \A i \in 1 .. Len(pipe') : ~IsData(pipe'[i])
    <3>1. Len(pipe') = 2 /\ ~IsData(pipe'[1]) /\ ~IsData(pipe'[2])
      BY <2>1 DEF State, Activate, IsData
    <3>2. \A i \in 1 .. Len(pipe') : i = 1 \/ i = 2
      BY <3>1
    <3> QED BY <3>1, <3>2
  <2> QED BY <2>1, <2>4, <2>5 DEF WritesOK, Written, IsData
<1>4. CASE AtWork
  <2>1. UNCHANGED <<table, writes, target>>
    BY <1>4 DEF AtWork
  <2>2. PICK handled, more, k : Progress(handled, more, k)
    BY <1>4 DEF AtWork
  <2>3. /\ more \in Seq(Message) /\ pipe' = pipe \o more /\ Len(more) \in Nat
        /\ handled \subseteq cursor
        /\ \A i \in 1 .. Len(more) : IsData(more[i]) => more[i].rows \subseteq buffer \cup handled
        /\ cursor' \subseteq cursor /\ buffer' \subseteq buffer \cup handled
    BY <2>2 DEF Progress, Delivers, NoProcess
  <2>4. Written(buffer \cup handled)
    BY <2>3 DEF WritesOK, Written
  <2>5. \A i \in 1 .. Len(pipe') : IsData(pipe'[i]) => Written(pipe'[i].rows)
    <3>1. \A i \in 1 .. Len(pipe') :
              (i \in 1 .. Len(pipe) /\ pipe'[i] = pipe[i])
              \/ (i - Len(pipe) \in 1 .. Len(more) /\ pipe'[i] = more[i - Len(pipe)])
      BY <1>1, <2>3, Appended
    <3>2. \A i \in 1 .. Len(more) : IsData(more[i]) => Written(more[i].rows)
      BY <2>3, <2>4 DEF Written
    <3> QED BY <3>1, <3>2 DEF WritesOK
  <2> QED BY <2>1, <2>3, <2>4, <2>5 DEF WritesOK, Written, IsData
<1>5. CASE SyncFails \/ PipelineCrash
  <2>1. /\ UNCHANGED <<table, writes, target>> /\ cursor' = {} /\ buffer' = {}
        /\ pipe' = pipe \/ pipe' = << >>
    BY <1>5 DEF SyncFails, PipelineCrash, Crash, NoProcess, database
  <2>2. \A i \in 1 .. Len(pipe') : IsData(pipe'[i]) => Written(pipe'[i].rows)
    BY <2>1 DEF WritesOK
  <2> QED BY <2>1, <2>2 DEF WritesOK, Written, IsData
<1>6. CASE TargetHandles
  <2>1. PICK m : m = pipe[1]
    OBVIOUS
  <2>2. /\ UNCHANGED <<table, writes, cursor, buffer>> /\ 1 \in 1 .. Len(pipe)
        /\ \A i \in 1 .. Len(pipe') : i + 1 \in 1 .. Len(pipe) /\ pipe'[i] = pipe[i + 1]
        /\ IsData(m) =>
               target' = [r \in Rows |-> IF Arrived(m, r) = {} THEN target[r]
                                         ELSE [write |-> Max(Arrived(m, r)), version |-> m.version]]
        /\ ~IsData(m) => target' = target
        /\ \A r \in Rows : IsData(m) /\ Arrived(m, r) # {} => Max(Arrived(m, r)) \in Arrived(m, r)
    BY <1>6, <2>1, TargetEffect
  <2>3. \A i \in 1 .. Len(pipe') : IsData(pipe'[i]) => Written(pipe'[i].rows)
    BY <2>2 DEF WritesOK
  <2>4. ASSUME NEW r \in Rows PROVE target'[r].write <= writes
    <3>1. CASE IsData(m) /\ Arrived(m, r) # {}
      <4>1. Written(m.rows)
        BY <2>1, <2>2, <3>1 DEF WritesOK
      <4>2. \A w \in Arrived(m, r) : w <= writes
        BY <4>1 DEF Arrived, Written
      <4>3. target'[r].write = Max(Arrived(m, r)) /\ Max(Arrived(m, r)) \in Arrived(m, r)
        BY <2>2, <3>1
      <4> QED BY <4>2, <4>3
    <3>2. CASE ~IsData(m) \/ Arrived(m, r) = {}
      <4>1. target'[r] = target[r]
        BY <2>2, <3>2
      <4> QED BY <4>1 DEF WritesOK
    <3> QED BY <3>1, <3>2
  <2> QED BY <2>2, <2>3, <2>4 DEF WritesOK, Written, IsData
<1>7. CASE UNCHANGED vars
  <2>1. UNCHANGED <<table, writes, cursor, buffer, pipe, target>>
    BY <1>7 DEF vars, database, process, downstream, history
  <2> QED BY <2>1 DEF WritesOK, Written, IsData
<1> QED BY <1>2, <1>3, <1>4, <1>5, <1>6, <1>7, SyncRecordWorks, SyncRecordBatchWorks, FinishSyncWorks
        DEF Next

-----------------------------------------------------------------------------
(***************************************************************************)
(* The order of the bookmarks.  Along the state file, the STATE messages   *)
(* on their way to it and the run's own bookmark keys only advance, but to *)
(* what lowered keys are bookmarked as, and what the query still has to    *)
(* yield is beyond all of them.  A bookmark is what some key is bookmarked *)
(* as: the key in between, when a lowered one takes it back.               *)
(***************************************************************************)

Bookmarks == {None} \cup {SingerKey(j) : j \in Keys}

Advances(k, l) == l >= k \/ l \in Fallbacks

Ahead(k) ==
    /\ k \in Bookmarks /\ Advances(k, replication_key_value)
    /\ \A c \in cursor : c.key # None => k <= c.key

OrderOK ==
    ~raised =>
        /\ \A i \in 1 .. Len(pipe) : pipe[i].type = "STATE" =>
               /\ pipe[i].key \in Bookmarks /\ Advances(file.key, pipe[i].key)
               /\ \A j \in i + 1 .. Len(pipe) :
                      pipe[j].type = "STATE" => Advances(pipe[i].key, pipe[j].key)
               /\ syncing => Ahead(pipe[i].key)
        /\ syncing => Ahead(file.key) /\ Ahead(replication_key_value)
        /\ ~syncing => replication_key_value = None
        /\ file.key \in Bookmarks

LEMMA KeyTypes ==
    ASSUME IInv
    PROVE  /\ pipe \in Seq(Message) /\ Len(pipe) \in Nat
           /\ \A i \in 1 .. Len(pipe) : pipe[i].type = "STATE" => pipe[i].key \in Nat
           /\ file.key \in Nat /\ replication_key_value \in Nat
           /\ \A c \in cursor : c.key \in Nat /\ (c.key # None => c.key \in Keys)
           /\ \A j \in Keys : j \in Nat /\ j # None /\ SingerKey(j) \in Nat
           /\ syncing \in BOOLEAN /\ raised \in BOOLEAN
<1>1. \A m \in Message : m.type = "STATE" => m.key \in Nat
  BY DEF Message
<1>2. \A c \in RowVersion : c.key \in Nat /\ (c.key # None => c.key \in Keys)
  BY SizesAssumption DEF RowVersion, Keys, None
<1>3. \A j \in Keys : j \in Nat /\ j # None /\ SingerKey(j) \in Nat
  BY SingerKeyType, SizesAssumption DEF Keys, None
<1> QED BY <1>1, <1>2, <1>3 DEF IInv, TableOK, ProcessOK, PipeOK

\* A bookmark that is below the one before it comes from a lowered key.
LEMMA BackOnlyLowered ==
    ASSUME NEW b \in Nat, b \in Bookmarks, NEW key \in Keys, b <= key, SingerKey(key) \in Nat,
           SingerKey(key) < b
    PROVE  Lowered(key) /\ SingerKey(key) \in Fallbacks
<1>1. PICK j \in Keys : b = SingerKey(j)
  BY DEF Bookmarks, None
<1>2. Lowered(key)
  BY <1>1 DEF Lowered
<1> QED BY <1>2 DEF Fallbacks

\* A key that the run moves to is a step back, for whatever it was ahead of,
\* only to a fallback.
LEMMA ProgressAdvances ==
    ASSUME IInv, syncing, ~raised, OrderOK,
           NEW handled, NEW more, NEW k, Progress(handled, more, k)
    PROVE  /\ k \in Nat /\ k \in Bookmarks
           /\ \A b \in Nat : Ahead(b) => Advances(b, k)
           /\ \A c \in cursor' : c \in cursor /\ (c.key # None => k <= c.key)
<1>1. /\ handled \subseteq cursor /\ IsFront(handled, cursor) /\ cursor' \subseteq cursor \ handled
      /\ k # replication_key_value => \E c \in handled : c.key # None /\ k = SingerKey(c.key)
  BY DEF Progress, Moves
<1>2. /\ replication_key_value \in Nat /\ Ahead(replication_key_value)
      /\ \A c \in cursor : c.key \in Nat /\ (c.key # None => c.key \in Keys)
      /\ \A j \in Keys : j # None /\ SingerKey(j) \in Nat
      /\ \A c \in cursor : SingerKey(c.key) <= c.key
  BY KeyTypes DEF OrderOK, IInv, GapOK
<1>3. CASE k = replication_key_value
  BY <1>1, <1>2, <1>3 DEF Ahead
<1>4. CASE \E c \in handled : c.key # None /\ k = SingerKey(c.key)
  <2>1. PICK c \in handled : c.key # None /\ k = SingerKey(c.key)
    BY <1>4
  <2>2. c \in cursor /\ c.key \in Keys /\ c.key \in Nat /\ k \in Nat /\ k <= c.key
    BY <1>1, <1>2, <2>1
  <2>3. k \in Bookmarks
    BY <2>1, <2>2 DEF Bookmarks
  <2>4. ASSUME NEW b \in Nat, Ahead(b)
        PROVE  Advances(b, k)
    <3>1. b \in Bookmarks /\ b <= c.key
      BY <2>1, <2>2, <2>4 DEF Ahead
    <3>2. CASE k < b
      BY <2>1, <2>2, <3>1, <3>2, BackOnlyLowered DEF Advances
    <3>3. CASE k >= b
      BY <3>3 DEF Advances
    <3> QED BY <2>2, <3>2, <3>3
  <2>5. ASSUME NEW d \in cursor', d.key # None
        PROVE  k <= d.key
    <3>1. d \in cursor \ handled /\ d.key \in Nat
      BY <1>1, <1>2
    <3>2. ~Before(d, c)
      BY <1>1, <2>1, <3>1 DEF IsFront
    <3>3. ~(d.key < c.key)
      BY <2>1, <2>5, <3>2 DEF Before
    <3> QED BY <2>2, <3>1, <3>3
  <2> QED BY <1>1, <2>2, <2>3, <2>4, <2>5
<1> QED BY <1>1, <1>3, <1>4

LEMMA OrderStep == ASSUME IInv, OrderOK, [Next]_vars PROVE OrderOK'
<1> SUFFICES ASSUME ~raised' PROVE OrderOK'
  BY DEF OrderOK
<1>1. /\ pipe \in Seq(Message) /\ Len(pipe) \in Nat
      /\ \A i \in 1 .. Len(pipe) : pipe[i].type = "STATE" => pipe[i].key \in Nat
      /\ file.key \in Nat /\ replication_key_value \in Nat
      /\ \A c \in cursor : c.key \in Nat
      /\ syncing \in BOOLEAN
  BY KeyTypes
<1>2. CASE StartSync
  <2>1. /\ ~syncing /\ syncing' = TRUE /\ replication_key_value' = file.key /\ UNCHANGED <<table, file>>
        /\ pipe' = << State(version', file.key), Activate(version') >>
    BY <1>2 DEF StartSync, database
  <2>6. ~raised
    BY <1>2 DEF StartSync
  <2>2. Len(pipe') = 2 /\ pipe'[1].key = file.key /\ pipe'[2].type # "STATE"
    BY <2>1 DEF State, Activate
  <2>3. \A i \in 1 .. Len(pipe') : i = 1 \/ i = 2
    BY <2>2
  <2>4. ASSUME NEW c \in cursor', c.key # None
        PROVE  file.key <= c.key
    <3>1. PICK limit \in Limits : cursor' \in Results(file.key, limit)
      BY <1>2 DEF StartSync
    <3>2. cursor' \subseteq TableRows(file.key)
      BY <3>1 DEF Results
    <3>3. PICK r \in Rows : c.key = table[r].key /\ Qualifies(table[r].key, file.key)
      BY <3>2 DEF TableRows
    <3>4. c.key \in Nat
      <4>1. c \in RowVersion
        BY <3>1, ResultsOf DEF IInv
      <4> QED BY <4>1, SizesAssumption DEF RowVersion, Keys, None
    <3> QED BY <1>1, <3>3, <3>4 DEF Qualifies, None
  <2>5. Advances(file.key, file.key) /\ file.key \in Bookmarks
    BY <1>1, <2>6 DEF Advances, OrderOK
  <2> QED BY <2>1, <2>2, <2>3, <2>4, <2>5 DEF OrderOK, Ahead, Advances
<1>3. CASE AtWork
  <2>1. syncing /\ ~raised /\ UNCHANGED file
    BY <1>3 DEF AtWork
  <2>2. PICK handled, more, k : Progress(handled, more, k)
    BY <1>3 DEF AtWork
  <2>3. /\ more \in Seq(Message) /\ pipe' = pipe \o more /\ Len(more) \in Nat
        /\ \A i \in 1 .. Len(more) : more[i].type = "STATE" => more[i].key = k
        /\ syncing' \in BOOLEAN
        /\ syncing' => replication_key_value' = k
        /\ ~syncing' => replication_key_value' = None
    <3>1. /\ more \in Seq(Message) /\ pipe' = pipe \o more
          /\ \A i \in 1 .. Len(more) : more[i].type = "STATE" => more[i].key = k
      BY <2>2 DEF Progress, Delivers
    <3>2. \/ syncing' = TRUE /\ replication_key_value' = k
          \/ syncing' = FALSE /\ replication_key_value' = None
      BY <2>2 DEF Progress, NoProcess
    <3>3. Len(more) \in Nat
      BY <3>1
    <3>4. /\ syncing' \in BOOLEAN
          /\ syncing' => replication_key_value' = k
          /\ ~syncing' => replication_key_value' = None
      BY <3>2
    <3> QED BY <3>1, <3>3, <3>4
  <2>4. /\ k \in Nat /\ k \in Bookmarks /\ \A b \in Nat : Ahead(b) => Advances(b, k)
        /\ \A c \in cursor' : c \in cursor /\ (c.key # None => k <= c.key)
    BY <2>1, <2>2, ProgressAdvances
  <2>5. Advances(k, k) /\ Advances(file.key, k)
    BY <1>1, <2>1, <2>4 DEF OrderOK, Advances
  <2>6. /\ Len(pipe') = Len(pipe) + Len(more)
        /\ \A i \in 1 .. Len(pipe) : pipe'[i] = pipe[i]
        /\ \A i \in 1 .. Len(pipe') : i \in 1 .. Len(pipe)
               \/ (i - Len(pipe) \in 1 .. Len(more) /\ pipe'[i] = more[i - Len(pipe)])
    BY <1>1, <2>3, Appended
  <2>7. ASSUME NEW i \in 1 .. Len(pipe'), pipe'[i].type = "STATE"
        PROVE  \/ i \in 1 .. Len(pipe) /\ pipe'[i] = pipe[i]
               \/ i \notin 1 .. Len(pipe) /\ pipe'[i].key = k
    BY <2>3, <2>6, <2>7
  <2>8. ASSUME NEW b \in Nat, Ahead(b), syncing'
        PROVE  Ahead(b)'
    BY <2>3, <2>4, <2>8 DEF Ahead, Advances
  <2>9. syncing' => Ahead(k)'
    BY <2>3, <2>4, <2>5 DEF Ahead, Advances
  <2>10. ASSUME NEW i \in 1 .. Len(pipe'), pipe'[i].type = "STATE"
         PROVE  /\ pipe'[i].key \in Bookmarks /\ Advances(file.key, pipe'[i].key)
                /\ \A j \in i + 1 .. Len(pipe') :
                       pipe'[j].type = "STATE" => Advances(pipe'[i].key, pipe'[j].key)
                /\ syncing' => \E b \in Nat : b = pipe'[i].key /\ Ahead(b)'
    <3>1. CASE i \in 1 .. Len(pipe) /\ pipe'[i] = pipe[i]
      <4>1. PICK b \in Nat : b = pipe[i].key
        BY <1>1, <2>10, <3>1
      <4>2. /\ b \in Bookmarks /\ Ahead(b) /\ Advances(file.key, b)
            /\ \A j \in i + 1 .. Len(pipe) : pipe[j].type = "STATE" => Advances(b, pipe[j].key)
        BY <2>1, <2>10, <3>1, <4>1 DEF OrderOK
      <4>3. ASSUME NEW j \in i + 1 .. Len(pipe'), pipe'[j].type = "STATE"
            PROVE  Advances(b, pipe'[j].key)
        <5>1. j \in 1 .. Len(pipe')
          BY <1>1, <3>1
        <5>2. CASE j \in 1 .. Len(pipe) /\ pipe'[j] = pipe[j]
          BY <1>1, <3>1, <4>2, <4>3, <5>2
        <5>3. CASE pipe'[j].key = k
          BY <2>4, <4>2, <5>3
        <5> QED BY <2>7, <4>3, <5>1, <5>2, <5>3
      <4> QED BY <2>8, <3>1, <4>1, <4>2, <4>3
    <3>2. CASE i \notin 1 .. Len(pipe) /\ pipe'[i].key = k
      <4>1. ASSUME NEW j \in i + 1 .. Len(pipe'), pipe'[j].type = "STATE"
            PROVE  pipe'[j].key = k
        <5>1. j \in 1 .. Len(pipe') /\ j \notin 1 .. Len(pipe)
          BY <1>1, <3>2
        <5> QED BY <2>7, <4>1, <5>1
      <4> QED BY <2>4, <2>5, <2>9, <3>2, <4>1
    <3> QED BY <2>7, <2>10, <3>1, <3>2
  <2>11. \A i \in 1 .. Len(pipe') : pipe'[i].type = "STATE" /\ syncing' => Ahead(pipe[i].key)'
    BY <2>10 DEF Ahead, Advances
  <2>12. syncing' => Ahead(file.key)' /\ Ahead(replication_key_value)'
    <3>1. PICK b \in Nat : b = file.key
      BY <1>1
    <3>2. Ahead(b)
      BY <2>1, <3>1 DEF OrderOK
    <3>3. syncing' => Ahead(b)' /\ b = file'.key
      BY <2>1, <2>8, <3>1, <3>2
    <3> QED BY <2>3, <2>9, <3>3 DEF Ahead, Advances
  <2>13. file'.key \in Bookmarks
    BY <2>1 DEF OrderOK
  <2> QED BY <2>1, <2>3, <2>10, <2>11, <2>12, <2>13 DEF OrderOK, Advances
<1>4. CASE SyncFails \/ PipelineCrash
  <2>1. /\ replication_key_value' = None /\ syncing' = FALSE /\ file' = file /\ ~raised
        /\ pipe' = pipe \/ (pipe' = << >> /\ Len(pipe') = 0)
    BY <1>4 DEF SyncFails, PipelineCrash, Crash, NoProcess
  <2> QED BY <1>1, <2>1 DEF OrderOK, Advances
<1>5. CASE TargetHandles
  <2>1. PICK m : m = pipe[1]
    OBVIOUS
  <2>2. /\ UNCHANGED <<replication_key_value, cursor, syncing>> /\ ~raised
        /\ 1 \in 1 .. Len(pipe) /\ Len(pipe') = Len(pipe) - 1
        /\ \A i \in 1 .. Len(pipe') : i + 1 \in 1 .. Len(pipe) /\ pipe'[i] = pipe[i + 1]
        /\ m.type = "STATE" => file' = [version |-> m.version, key |-> m.key]
        /\ m.type # "STATE" => file' = file
    BY <1>5, <2>1, TargetEffect
  <2>3. file'.key = file.key \/ (m.type = "STATE" /\ file'.key = m.key)
    BY <2>2
  <2>4. ASSUME NEW i \in 1 .. Len(pipe'), pipe'[i].type = "STATE"
        PROVE  /\ pipe'[i].key \in Bookmarks /\ Advances(file'.key, pipe'[i].key)
               /\ \A j \in i + 1 .. Len(pipe') :
                      pipe'[j].type = "STATE" => Advances(pipe'[i].key, pipe'[j].key)
               /\ syncing => Ahead(pipe'[i].key)
    <3>1. i + 1 \in 1 .. Len(pipe) /\ pipe'[i] = pipe[i + 1] /\ i + 1 \in 1 + 1 .. Len(pipe)
      BY <1>1, <2>2
    <3>2. /\ pipe'[i].key \in Bookmarks /\ Advances(file.key, pipe'[i].key)
          /\ m.type = "STATE" => Advances(m.key, pipe'[i].key)
      BY <2>1, <2>2, <2>4, <3>1 DEF OrderOK
    <3>3. ASSUME NEW j \in i + 1 .. Len(pipe'), pipe'[j].type = "STATE"
          PROVE  Advances(pipe'[i].key, pipe'[j].key)
      <4>1. j \in 1 .. Len(pipe') /\ j + 1 \in (i + 1) + 1 .. Len(pipe) /\ pipe'[j] = pipe[j + 1]
        BY <1>1, <2>2
      <4> QED BY <2>2, <2>4, <3>1, <3>3, <4>1 DEF OrderOK
    <3>4. syncing => Ahead(pipe'[i].key)
      BY <2>2, <2>4, <3>1 DEF OrderOK
    <3> QED BY <2>3, <3>2, <3>3, <3>4
  <2>5. /\ syncing => Ahead(file'.key) /\ Ahead(replication_key_value)
        /\ ~syncing => replication_key_value = None
        /\ file'.key \in Bookmarks
    BY <2>1, <2>2, <2>3 DEF OrderOK
  <2>6. \A b : Ahead(b) => /\ b \in Bookmarks /\ Advances(b, replication_key_value')
                           /\ \A c \in cursor' : c.key # None => b <= c.key
    BY <2>2 DEF Ahead
  <2> QED BY <2>2, <2>4, <2>5, <2>6 DEF OrderOK, Ahead, Advances
<1>6. CASE Write \/ UNCHANGED vars
  <2>1. UNCHANGED <<replication_key_value, cursor, syncing, file, pipe, raised>>
    BY <1>6 DEF Write, vars, process, downstream, history
  <2> QED BY <2>1 DEF OrderOK, Ahead, Advances
<1> QED BY <1>2, <1>3, <1>4, <1>5, <1>6, SyncRecordWorks, SyncRecordBatchWorks, FinishSyncWorks DEF Next

\* The action of BookmarkOnlyAdvances.
BookmarkStep ==
    ~raised =>
        /\ file'.key >= file.key \/ file'.key \in Fallbacks
        /\ replication_key_value' < replication_key_value /\ syncing' =>
               \E c \in cursor \ cursor' :
                   /\ c.key # None /\ Lowered(c.key)
                   /\ replication_key_value' = SingerKey(c.key)
                   /\ replication_key_value' = None => batch_mode

LEMMA BookmarkStepHolds == ASSUME IInv, OrderOK, [Next]_vars PROVE BookmarkStep
<1> SUFFICES ASSUME ~raised PROVE BookmarkStep
  BY DEF BookmarkStep
<1>1. /\ file.key \in Nat /\ replication_key_value \in Nat /\ Len(pipe) \in Nat
      /\ \A c \in cursor : c.key \in Nat
  BY KeyTypes
<1>2. CASE StartSync
  <2>1. replication_key_value = None /\ replication_key_value' \in Nat /\ file' = file
    BY <1>1, <1>2 DEF StartSync, OrderOK
  <2> QED BY <1>1, <2>1 DEF BookmarkStep, None
<1>3. CASE AtWork
  <2>1. syncing /\ file' = file
    BY <1>3 DEF AtWork
  <2>2. PICK handled, more, k : Progress(handled, more, k)
    BY <1>3 DEF AtWork
  <2>3. /\ handled \subseteq cursor /\ cursor' = cursor \ handled
        /\ syncing' => replication_key_value' = k
        /\ k # replication_key_value =>
               \E c \in handled : c.key # None /\ k = SingerKey(c.key) /\ (k = None => batch_mode)
    BY <2>2 DEF Progress, Moves, NoProcess
  <2>4. ASSUME syncing', k < replication_key_value
        PROVE  \E c \in cursor \ cursor' : /\ c.key # None /\ Lowered(c.key) /\ k = SingerKey(c.key)
                                           /\ k = None => batch_mode
    <3>1. PICK c \in handled : c.key # None /\ k = SingerKey(c.key) /\ (k = None => batch_mode)
      BY <1>1, <2>3, <2>4
    <3>2. /\ replication_key_value \in Bookmarks /\ replication_key_value <= c.key
          /\ c.key \in Keys /\ SingerKey(c.key) \in Nat
      BY <2>1, <2>3, <3>1, KeyTypes DEF OrderOK, Ahead
    <3>3. Lowered(c.key)
      BY <1>1, <2>4, <3>1, <3>2, BackOnlyLowered
    <3> QED BY <2>3, <3>1, <3>3
  <2> QED BY <1>1, <2>1, <2>3, <2>4 DEF BookmarkStep
<1>4. CASE SyncFails \/ PipelineCrash
  <2>1. syncing' = FALSE /\ file' = file
    BY <1>4 DEF SyncFails, PipelineCrash, Crash, NoProcess
  <2> QED BY <1>1, <2>1 DEF BookmarkStep
<1>5. CASE TargetHandles
  <2>1. PICK m : m = pipe[1]
    OBVIOUS
  <2>2. /\ UNCHANGED replication_key_value /\ 1 \in 1 .. Len(pipe)
        /\ m.type = "STATE" => file' = [version |-> m.version, key |-> m.key]
        /\ m.type # "STATE" => file' = file
    BY <1>5, <2>1, TargetEffect
  <2>3. file'.key >= file.key \/ file'.key \in Fallbacks
    BY <1>1, <2>1, <2>2 DEF OrderOK, Advances
  <2> QED BY <1>1, <2>2, <2>3 DEF BookmarkStep
<1>6. CASE Write \/ UNCHANGED vars
  <2>1. UNCHANGED <<replication_key_value, file>>
    BY <1>6 DEF Write, vars, process, downstream, history
  <2> QED BY <1>1, <2>1 DEF BookmarkStep
<1> QED BY <1>2, <1>3, <1>4, <1>5, <1>6, SyncRecordWorks, SyncRecordBatchWorks, FinishSyncWorks DEF Next

-----------------------------------------------------------------------------
(***************************************************************************)
(* The order in which rows arrive.  All that is on its way to the target   *)
(* comes from one query, which saw each row once and not before what the   *)
(* target has of it.                                                       *)
(***************************************************************************)

InFlight(c) ==
    \/ c \in cursor \cup buffer
    \/ \E i \in 1 .. Len(pipe) : IsData(pipe[i]) /\ c \in pipe[i].rows

SnapshotOK ==
    /\ \A r \in Rows : target[r].write <= table[r].write
    /\ \A c \in RowVersion : InFlight(c) =>
           target[c.row].write <= c.write /\ c.write <= table[c.row].write
    /\ \A c, d \in RowVersion : InFlight(c) /\ InFlight(d) /\ c.row = d.row => c.write = d.write

\* Only a query puts rows on their way.
LEMMA FlightShrinks ==
    ASSUME IInv, [Next]_vars, ~StartSync, NEW c, InFlight(c)'
    PROVE  InFlight(c)
<1>1. pipe \in Seq(Message) /\ Len(pipe) \in Nat
  BY DEF IInv, PipeOK
<1>2. CASE AtWork
  <2>1. PICK handled, more, k : Progress(handled, more, k)
    BY <1>2 DEF AtWork
  <2>2. /\ more \in Seq(Message) /\ pipe' = pipe \o more /\ handled \subseteq cursor
        /\ \A i \in 1 .. Len(more) : IsData(more[i]) => more[i].rows \subseteq buffer \cup handled
        /\ cursor' \subseteq cursor /\ buffer' \subseteq buffer \cup handled
    BY <2>1 DEF Progress, Delivers, NoProcess
  <2>3. \A i \in 1 .. Len(pipe') :
            (i \in 1 .. Len(pipe) /\ pipe'[i] = pipe[i])
            \/ (i - Len(pipe) \in 1 .. Len(more) /\ pipe'[i] = more[i - Len(pipe)])
    BY <1>1, <2>2, Appended
  <2>4. CASE c \in cursor' \cup buffer'
    BY <2>2, <2>4 DEF InFlight
  <2>5. ASSUME NEW i \in 1 .. Len(pipe'), IsData(pipe'[i]), c \in pipe'[i].rows
        PROVE  InFlight(c)
    <3>1. CASE i \in 1 .. Len(pipe) /\ pipe'[i] = pipe[i]
      BY <2>5, <3>1 DEF InFlight
    <3>2. CASE i - Len(pipe) \in 1 .. Len(more) /\ pipe'[i] = more[i - Len(pipe)]
      BY <2>2, <2>5, <3>2 DEF InFlight
    <3> QED BY <2>3, <3>1, <3>2
  <2> QED BY <2>4, <2>5 DEF InFlight, IsData
<1>3. CASE SyncFails \/ PipelineCrash
  <2>1. cursor' = {} /\ buffer' = {} /\ (pipe' = pipe \/ pipe' = << >>)
    BY <1>3 DEF SyncFails, PipelineCrash, Crash, NoProcess
  <2> QED BY <2>1 DEF InFlight, IsData
<1>4. CASE TargetHandles
  <2>1. /\ UNCHANGED <<cursor, buffer>>
        /\ \A i \in 1 .. Len(pipe') : i + 1 \in 1 .. Len(pipe) /\ pipe'[i] = pipe[i + 1]
    BY <1>4, TargetEffect
  <2> QED BY <2>1 DEF InFlight, IsData
<1>5. CASE Write \/ UNCHANGED vars
  <2>1. UNCHANGED <<cursor, buffer, pipe>>
    BY <1>5 DEF Write, vars, process, downstream, history
  <2> QED BY <2>1 DEF InFlight, IsData
<1> QED BY <1>2, <1>3, <1>4, <1>5, SyncRecordWorks, SyncRecordBatchWorks, FinishSyncWorks DEF Next

LEMMA WriteTypes ==
    ASSUME IInv
    PROVE  /\ \A r \in Rows : target[r].write \in Nat /\ table[r].write \in Nat
           /\ \A c \in RowVersion : c.row \in Rows /\ c.write \in Nat
           /\ DOMAIN table = Rows
<1>1. /\ table \in [Rows -> [key : Keys \cup {None}, write : 0 .. MaxWrites]]
      /\ target \in [Rows -> [write : Nat, version : Nat]]
  BY DEF IInv, TableOK
<1>2. \A c \in RowVersion : c.row \in Rows /\ c.write \in Nat
  BY DEF RowVersion
<1> QED BY <1>1, <1>2

\* A write touches one row, and makes it newer than all that was written.
LEMMA WriteOf ==
    ASSUME IInv, WritesOK, Write
    PROVE  /\ UNCHANGED <<target, seen, raised, file, cursor, buffer, pipe>>
           /\ table' \in [Rows -> [key : Keys \cup {None}, write : Nat]]
           /\ \E r \in Rows : /\ \A q \in Rows \ {r} : table'[q] = table[q]
                              /\ table'[r].write > table[r].write
                              /\ late' = IF table'[r].key # None /\ table'[r].key < seen
                                         THEN late \cup {r} ELSE late \ {r}
<1>1. PICK r \in Rows, k \in Keys \cup {None} :
          /\ table' = [table EXCEPT ![r] = [key |-> k, write |-> writes']]
          /\ late' = IF k # None /\ k < seen THEN late \cup {r} ELSE late \ {r}
  BY DEF Write
<1>2. /\ table \in [Rows -> [key : Keys \cup {None}, write : 0 .. MaxWrites]]
      /\ writes \in Nat /\ table[r].write <= writes /\ writes' = writes + 1
  BY DEF IInv, TableOK, WritesOK, Write
<1>3. table[r].write \in Nat
  BY <1>2
<1>4. table'[r] = [key |-> k, write |-> writes'] /\ \A q \in Rows \ {r} : table'[q] = table[q]
  BY <1>1, <1>2
<1>5. table' \in [Rows -> [key : Keys \cup {None}, write : Nat]]
  BY <1>1, <1>2
<1>6. UNCHANGED <<target, seen, raised, file, cursor, buffer, pipe>>
  BY DEF Write, process, downstream, history
<1>7. table'[r].write > table[r].write
  BY <1>2, <1>3, <1>4
<1>8. late' = IF table'[r].key # None /\ table'[r].key < seen THEN late \cup {r} ELSE late \ {r}
  BY <1>1, <1>4
<1> QED BY <1>4, <1>5, <1>6, <1>7, <1>8

\* What the target has of a row it had before, or it has just arrived.
LEMMA TargetRow ==
    ASSUME IInv, TargetHandles, NEW r \in Rows
    PROVE  \/ target'[r].write = target[r].write
           \/ \E c \in RowVersion : InFlight(c) /\ c.row = r /\ target'[r].write = c.write
<1>1. PICK m : m = pipe[1]
  OBVIOUS
<1>2. /\ 1 \in 1 .. Len(pipe) /\ m \in Message
      /\ IsData(m) =>
             target' = [q \in Rows |-> IF Arrived(m, q) = {} THEN target[q]
                                       ELSE [write |-> Max(Arrived(m, q)), version |-> m.version]]
      /\ ~IsData(m) => target' = target
      /\ IsData(m) /\ Arrived(m, r) # {} => Max(Arrived(m, r)) \in Arrived(m, r)
  BY <1>1, TargetEffect
<1>3. CASE IsData(m) /\ Arrived(m, r) # {}
  <2>1. PICK c \in m.rows : c.row = r /\ c.write = Max(Arrived(m, r))
    BY <1>2, <1>3 DEF Arrived
  <2>2. c \in RowVersion
    BY <1>2, <1>3, <2>1 DEF Message, IsData
  <2>3. InFlight(c)
    BY <1>1, <1>2, <1>3, <2>1 DEF InFlight
  <2>4. target'[r].write = c.write
    BY <1>2, <1>3, <2>1
  <2> QED BY <2>1, <2>2, <2>3, <2>4
<1>4. CASE ~(IsData(m) /\ Arrived(m, r) # {})
  BY <1>2, <1>4
<1> QED BY <1>3, <1>4

LEMMA SnapshotStep == ASSUME IInv, WritesOK, SnapshotOK, [Next]_vars PROVE SnapshotOK'
<1>1. /\ \A r \in Rows : target[r].write \in Nat /\ table[r].write \in Nat
      /\ \A c \in RowVersion : c.row \in Rows /\ c.write \in Nat
  BY WriteTypes
<1>2. CASE StartSync
  <2>1. /\ UNCHANGED <<table, target>> /\ buffer' = {}
        /\ pipe' = << State(version', file.key), Activate(version') >>
    BY <1>2 DEF StartSync, database, IInv, ProcessOK
  <2>2. PICK limit \in Limits : cursor' \in Results(file.key, limit)
    BY <1>2 DEF StartSync
  <2>3. \A c \in cursor' : c.write = table[c.row].write
    BY <2>2, ResultsOf DEF IInv
  <2>4. \A i \in 1 .. Len(pipe') : ~IsData(pipe'[i])
    <3>1. Len(pipe') = 2 /\ ~IsData(pipe'[1]) /\ ~IsData(pipe'[2])
      BY <2>1 DEF State, Activate, IsData
    <3>2. \A i \in 1 .. Len(pipe') : i = 1 \/ i = 2
      BY <3>1
    <3> QED BY <3>1, <3>2
  <2>5. \A c : InFlight(c)' => c \in cursor'
    BY <2>1, <2>4 DEF InFlight, IsData
  <2> QED BY <1>1, <2>1, <2>3, <2>5 DEF SnapshotOK
<1>3. ASSUME ~StartSync PROVE \A c : InFlight(c)' => InFlight(c)
  BY <1>3, FlightShrinks
<1>4. CASE Write
  <2>1. /\ UNCHANGED target
        /\ \A r \in Rows : table'[r].write \in Nat /\ table'[r].write >= table[r].write
    BY <1>1, <1>4, WriteOf
  <2>2. ~StartSync
    BY <1>4 DEF Write, StartSync, process
  <2> QED BY <1>1, <1>3, <2>1, <2>2 DEF SnapshotOK
<1>5. CASE TargetHandles
  <2>1. UNCHANGED table /\ pipe # << >>
    BY <1>5, TargetEffect
  <2>2. \A r \in Rows : \/ target'[r].write = target[r].write
                       \/ \E c \in RowVersion : InFlight(c) /\ c.row = r /\ target'[r].write = c.write
    BY <1>5, TargetRow
  <2>3. ~StartSync
    BY <2>1 DEF StartSync
  <2>5. \A r \in Rows : target'[r].write <= table'[r].write
    BY <1>1, <2>1, <2>2 DEF SnapshotOK
  <2>6. ASSUME NEW c \in RowVersion, InFlight(c)'
        PROVE  target'[c.row].write <= c.write /\ c.write <= table'[c.row].write
    <3>1. InFlight(c)
      BY <1>3, <2>3, <2>6
    <3> QED BY <1>1, <2>1, <2>2, <3>1 DEF SnapshotOK
  <2>7. \A c, d \in RowVersion : InFlight(c)' /\ InFlight(d)' /\ c.row = d.row => c.write = d.write
    BY <1>3, <2>3 DEF SnapshotOK
  <2> QED BY <2>5, <2>6, <2>7 DEF SnapshotOK
<1>6. CASE AtWork \/ SyncFails \/ PipelineCrash \/ UNCHANGED vars
  <2>1. UNCHANGED <<table, target>>
    BY <1>6 DEF AtWork, SyncFails, PipelineCrash, Crash, database, vars, downstream
  <2>2. CASE StartSync
    BY <1>2, <2>2
  <2>3. CASE ~StartSync
    BY <1>3, <2>1, <2>3 DEF SnapshotOK
  <2> QED BY <2>2, <2>3
<1> QED BY <1>2, <1>4, <1>5, <1>6, SyncRecordWorks, SyncRecordBatchWorks, FinishSyncWorks DEF Next

-----------------------------------------------------------------------------
(***************************************************************************)
(* The refinement: every step is one of KeyedFeed, or a stutter.           *)
(***************************************************************************)

LEMMA InitRefines == Init => Feed!Init
BY DEF Init, Feed!Init, Feed!None, None, StoredWrites

LEMMA WriteRefines == ASSUME IInv, WritesOK, Write PROVE Feed!Change
<1>1. /\ \A r \in Rows : table[r].write \in Nat
      /\ DOMAIN table = Rows /\ late \subseteq Rows
  BY WriteTypes DEF IInv, TableOK
<1>2. PICK r \in Rows : /\ \A q \in Rows \ {r} : table'[q] = table[q]
                       /\ table'[r].write > table[r].write
                       /\ late' = IF table'[r].key # None /\ table'[r].key < seen
                                  THEN late \cup {r} ELSE late \ {r}
  BY WriteOf
<1>3. UNCHANGED <<target, seen, raised, file>> /\ DOMAIN table' = Rows
  BY WriteOf
<1>4. table'[r] # table[r]
  BY <1>1, <1>2
<1>5. late' = {q \in Rows : IF table'[q] = table[q] THEN q \in late
                            ELSE table'[q].key # None /\ table'[q].key < seen}
  BY <1>1, <1>2, <1>4
<1>6. \A q \in Rows : table'[q] # table[q] => table'[q].write > table[q].write
  BY <1>2
<1> QED BY <1>1, <1>3, <1>5, <1>6 DEF Feed!Change, Feed!None, None, StoredWrites

\* The target never goes back to an older write.
LEMMA TargetAdvances ==
    ASSUME IInv, SnapshotOK, TargetHandles, NEW r \in Rows
    PROVE  target[r].write <= target'[r].write
BY TargetRow, WriteTypes DEF SnapshotOK

LEMMA TargetRefines ==
    ASSUME IInv, IInv', OrderOK, SnapshotOK, SnapshotOK', TargetHandles
    PROVE  Feed!Next \/ UNCHANGED Feed!vars
<1>1. PICK m : m = pipe[1]
  OBVIOUS
<1>2. /\ UNCHANGED <<table, late, seen, raised>> /\ 1 \in 1 .. Len(pipe)
      /\ m.type = "STATE" => file' = [version |-> m.version, key |-> m.key]
      /\ m.type # "STATE" => file' = file
      /\ ~IsData(m) => target' = target
  BY <1>1, TargetEffect
<1>3. CASE m.type = "STATE"
  <2>1. UNCHANGED StoredWrites
    BY <1>2, <1>3 DEF IsData, StoredWrites
  <2>2. ~raised => file'.key >= file.key \/ file'.key \in Fallbacks
    BY <1>1, <1>2, <1>3 DEF OrderOK, Advances
  <2>3. ASSUME ~raised, NEW r \in Rows \ late, table[r].key # None, table[r].key < file'.key
        PROVE  StoredWrites[r] = table[r].write
    <3>1. Below(r, file.key)'
      BY <1>2, <2>3 DEF Below, Punctual
    <3>2. UpToDate(r)'
      BY <1>2, <2>3, <3>1 DEF IInv, GapOK
    <3> QED BY <1>2, <1>3, <3>2 DEF UpToDate, StoredWrites, IsData
  <2>4. DOMAIN table = Rows
    BY WriteTypes
  <2>5. CASE raised
    BY <1>2, <2>1, <2>5 DEF Feed!Stray, Feed!Next
  <2>6. CASE ~raised
    <3>1. Feed!Advance
      BY <1>2, <2>1, <2>2, <2>3, <2>4, <2>6 DEF Feed!Advance, Feed!None, None
    <3> QED BY <3>1 DEF Feed!Next
  <2> QED BY <2>5, <2>6
<1>4. CASE IsData(m)
  <2>1. file' = file
    BY <1>2, <1>4 DEF IsData
  <2>2. \A r \in Rows : target[r].write <= target'[r].write /\ target'[r].write <= table[r].write
    BY <1>2, TargetAdvances DEF SnapshotOK
  <2>3. Feed!Store
    BY <1>2, <2>1, <2>2 DEF Feed!Store, StoredWrites
  <2> QED BY <2>3 DEF Feed!Next
<1>5. CASE m.type # "STATE" /\ ~IsData(m)
  BY <1>2, <1>5 DEF Feed!vars, StoredWrites
<1> QED BY <1>3, <1>4, <1>5

LEMMA StepRefines ==
    ASSUME IInv, IInv', WritesOK, OrderOK, SnapshotOK, SnapshotOK', [Next]_vars
    PROVE  [Feed!Next]_(Feed!vars)
<1>1. CASE Write
  BY <1>1, WriteRefines DEF Feed!Next
<1>2. CASE StartSync
  <2>1. /\ UNCHANGED <<table, late, target, file>> /\ (raised => raised')
        /\ seen \in Nat /\ seen' \in Nat /\ seen <= seen'
    BY <1>2, SeenOf, SizesAssumption DEF StartSync, database, IInv, TableOK
  <2>2. Feed!Look
    BY <2>1 DEF Feed!Look, StoredWrites
  <2> QED BY <2>2 DEF Feed!Next
<1>3. CASE TargetHandles
  BY <1>3, TargetRefines
<1>4. CASE AtWork \/ SyncFails \/ PipelineCrash \/ UNCHANGED vars
  <2>1. UNCHANGED <<table, late, target, file, seen, raised>>
    BY <1>4 DEF AtWork, SyncFails, PipelineCrash, Crash, database, vars, downstream, history
  <2> QED BY <2>1 DEF Feed!vars, StoredWrites
<1> QED BY <1>1, <1>2, <1>3, <1>4, SyncRecordWorks, SyncRecordBatchWorks, FinishSyncWorks DEF Next

-----------------------------------------------------------------------------
(***************************************************************************)
(* The theorems.                                                           *)
(***************************************************************************)

\* The types of the state, one version in all messages, and, until a key is
\* bookmarked as a higher one: a row below a bookmark is in the target, in the
\* pipe or in the buffer, and a row that the query has yet to yield is below
\* none (select_expression, sync_table, _sync_table_arrow, ArrowBatchWriter).
THEOREM InductiveInvariant == Spec => []IInv
BY InitInv, NextInv, PTL DEF Spec

\* Whatever the keys are bookmarked as, and until a query returns one that is
\* bookmarked as a higher one, the key bookmark never skips a row: neither the
\* order of writing and bookmarking, nor ties, NULLs, keys bookmarked as lower
\* ones, limits, batch files or crashes leave a gap below a bookmark that has
\* left the tap (select_expression, sync_table, _sync_table_arrow).
THEOREM BookmarkNeverSkips == Spec => []NoGaps
<1>1. IInv => NoGaps
  <2> SUFFICES ASSUME IInv, ~raised PROVE NoGaps
    BY DEF NoGaps
  <2>1. NothingSkipped(file.key, << >>)
    BY DEF IInv, GapOK, NothingSkipped, Below
  <2>2. ASSUME NEW i \in DOMAIN pipe, pipe[i].type = "STATE"
        PROVE  NothingSkipped(pipe[i].key, SubSeq(pipe, 1, i - 1))
    <3>1. pipe \in Seq(Message) /\ i \in 1 .. Len(pipe) /\ Len(pipe) \in Nat
      BY DEF IInv, PipeOK
    <3> DEFINE before == SubSeq(pipe, 1, i - 1)
    <3>2. DOMAIN before = 1 .. i - 1 /\ \A j \in 1 .. i - 1 : before[j] = pipe[j]
      BY <3>1
    <3> HIDE DEF before
    <3> SUFFICES ASSUME NEW r \in Rows, Punctual(r), table[r].key < pipe[i].key
                 PROVE  UpToDate(r) \/ OnItsWay(r, before)
      BY DEF NothingSkipped, before
    <3>3. UpToDate(r) \/ \E j \in 1 .. i - 1 : Carries(pipe[j], r)
      BY <2>2, <3>1 DEF IInv, GapOK, Below
    <3> QED BY <3>2, <3>3 DEF OnItsWay, Carries, IsData, Has
  <2> QED BY <2>1, <2>2 DEF NoGaps
<1> QED BY InductiveInvariant, <1>1, PTL

\* Activating the version at the head of every run discards no row, whatever
\* crashes have made of the runs before (sync_table writes STATE with the
\* version before it activates it).
THEOREM ActivationIsHarmless == Spec => ActivationDiscardsNothing
<1>1. ASSUME IInv, [Next]_vars, HandlesActivation
      PROVE  UNCHANGED target
  <2>1. CASE TargetHandles
    <3>1. pipe # << >> /\ pipe[1].type = "ACTIVATE_VERSION" /\ Head(pipe) = pipe[1]
      BY <1>1 DEF HandlesActivation, IInv, PipeOK
    <3>2. target' = [r \in Rows |-> IF target[r].version \in {None, pipe[1].version} THEN target[r]
                                    ELSE [write |-> None, version |-> None]]
      BY <2>1, <3>1 DEF TargetHandles
    <3>3. \A r \in Rows : target[r].version \in {None, pipe[1].version}
      BY <1>1, <3>1, ActivationOfCurrent
    <3>4. target \in [Rows -> [write : Nat, version : Nat]]
      BY <1>1 DEF IInv, TableOK
    <3> QED BY <3>2, <3>3, <3>4
  <2>2. CASE UNCHANGED vars
    BY <2>2 DEF vars, downstream
  <2> QED BY <1>1, <2>1, <2>2
          DEF Next, Write, StartSync, SyncRecord, SyncRecordBatch, FinishSync, SyncFails,
              PipelineCrash, Crash, downstream
<1>2. IInv /\ [Next]_vars => [HandlesActivation => UNCHANGED target]_vars
  BY <1>1
<1> QED BY InductiveInvariant, <1>2, PTL DEF Spec, ActivationDiscardsNothing

LEMMA InitBounds == Init => BufferOK /\ ClockOK /\ WritesOK /\ OrderOK /\ SnapshotOK
<1> SUFFICES ASSUME Init PROVE BufferOK /\ ClockOK /\ WritesOK /\ OrderOK /\ SnapshotOK
  OBVIOUS
<1>1. pipe = << >> /\ Len(pipe) = 0
  BY DEF Init
<1>2. BufferOK
  BY SizesAssumption, FS_EmptySet DEF Init, BufferOK
<1>3. ClockOK
  BY <1>1, BoundsAssumption DEF Init, ClockOK, None
<1>4. WritesOK
  BY <1>1 DEF Init, WritesOK, Written, None
<1>5. OrderOK
  BY <1>1 DEF Init, OrderOK, Bookmarks
<1>6. SnapshotOK
  BY <1>1 DEF Init, SnapshotOK, InFlight, None
<1> QED BY <1>2, <1>3, <1>4, <1>5, <1>6

\* The types of the state hold for all sizes and bounds: a version is handed
\* out at most once more than runs crash (sync_table), a batch file's buffer
\* never reaches its size (ArrowBatchWriter.write), and no bookmark is beyond
\* what a query returned.
THEOREM TypeCorrect == Spec => []TypeOK
<1>1. IInv /\ BufferOK /\ ClockOK /\ WritesOK => TypeOK
  <2> SUFFICES ASSUME IInv, BufferOK, ClockOK, WritesOK PROVE TypeOK
    OBVIOUS
  <2>1. /\ clock \in Nat /\ MaxCrashes \in Nat /\ crashes \in 0 .. MaxCrashes
        /\ writes \in 0 .. MaxWrites /\ MaxWrites \in Nat /\ MaxKey \in Nat
        /\ Keys \cup {None} = 0 .. MaxKey /\ seen \in 0 .. MaxKey
    BY BoundsAssumption, SizesAssumption DEF IInv, TableOK, ClockOK, Keys, None
  <2>2. table \in [Rows -> [key : Keys \cup {None}, write : 0 .. writes]]
    <3>1. \A r \in Rows : table[r] \in [key : Keys \cup {None}, write : 0 .. writes]
      <4>1. ASSUME NEW r \in Rows
            PROVE  table[r] \in [key : Keys \cup {None}, write : 0 .. MaxWrites] /\ table[r].write <= writes
        BY DEF IInv, TableOK, WritesOK
      <4> QED BY <2>1, <4>1
    <3> QED BY <3>1 DEF IInv, TableOK
  <2>3. target \in [Rows -> [write : 0 .. writes, version : Nat]]
    <3>1. \A r \in Rows : target[r] \in [write : 0 .. writes, version : Nat]
      <4>1. ASSUME NEW r \in Rows
            PROVE  target[r] \in [write : Nat, version : Nat] /\ target[r].write <= writes
        BY DEF IInv, TableOK, WritesOK
      <4> QED BY <2>1, <4>1
    <3> QED BY <3>1 DEF IInv, TableOK
  <2>4. version \in 0 .. clock /\ file \in [version : 0 .. clock, key : 0 .. seen]
    <3>1. version \in Nat /\ file \in [version : Nat, key : 0 .. MaxKey] /\ file.key <= seen
      BY DEF IInv, TableOK, ProcessOK
    <3> QED BY <2>1, <3>1 DEF ClockOK
  <2>5. replication_key_value \in 0 .. seen
    <3>1. replication_key_value \in 0 .. MaxKey /\ replication_key_value <= seen
      BY DEF IInv, ProcessOK
    <3> QED BY <2>1, <3>1
  <2>6. \A i \in DOMAIN pipe : pipe[i] \in MessageType
    <3>1. pipe \in Seq(Message)
      BY DEF IInv, PipeOK
    <3>2. Message = MessageType
      BY <2>1 DEF Message, MessageType
    <3> QED BY <3>1, <3>2
  <2>7. clock \in 0 .. 1 + MaxCrashes
    BY <2>1 DEF ClockOK
  <2>8. seen \in Keys \cup {None}
    BY <2>1
  <2> QED BY <2>1, <2>2, <2>3, <2>4, <2>5, <2>6, <2>7, <2>8
          DEF IInv, TableOK, ProcessOK, BufferOK, TypeOK
<1>2. /\ IInv /\ BufferOK /\ [Next]_vars => BufferOK'
      /\ IInv /\ ClockOK /\ [Next]_vars => ClockOK'
      /\ IInv /\ WritesOK /\ [Next]_vars => WritesOK'
  BY BufferStep, ClockStep, WritesStep
<1> QED BY InductiveInvariant, InitBounds, <1>1, <1>2, PTL DEF Spec

\* Whatever the keys are bookmarked as, and until a query returns one that is
\* bookmarked as a higher one, the key bookmark goes back, the run's or the
\* committed one, only when a key that is bookmarked as a lower one has been
\* read, and to None only in BATCH mode, whatever the limits and the crashes
\* (selected_value_to_singer_value, sync_table, _sync_table_arrow).
THEOREM BookmarkAdvances == Spec => BookmarkOnlyAdvances
<1>1. IInv /\ OrderOK /\ [Next]_vars => OrderOK'
  BY OrderStep
<1>2. IInv /\ OrderOK /\ [Next]_vars => [BookmarkStep]_vars
  BY BookmarkStepHolds
<1>3. Spec => [][BookmarkStep]_vars
  BY InductiveInvariant, InitBounds, <1>1, <1>2, PTL DEF Spec
<1> QED BY <1>3 DEF BookmarkOnlyAdvances, BookmarkStep

\* INCREMENTAL replication is a feed by key: the target moves only from older
\* states of a row to newer ones, and, until a key leads it astray, the bookmark
\* only past rows that the target has (sync_table, _sync_table_arrow,
\* incremental_sql).
THEOREM SyncIsKeyedFeed == Spec => ImplementsKeyedFeed
<1>1. Init => Feed!Init
  BY InitRefines
<1>2. /\ IInv /\ WritesOK /\ [Next]_vars => WritesOK'
      /\ IInv /\ OrderOK /\ [Next]_vars => OrderOK'
      /\ IInv /\ WritesOK /\ SnapshotOK /\ [Next]_vars => SnapshotOK'
  BY WritesStep, OrderStep, SnapshotStep
<1>3. /\ IInv /\ IInv' /\ WritesOK /\ OrderOK /\ SnapshotOK /\ SnapshotOK' /\ [Next]_vars
          => [Feed!Next]_(Feed!vars)
  BY StepRefines
<1> QED BY InductiveInvariant, InitBounds, <1>1, <1>2, <1>3, PTL DEF Spec, ImplementsKeyedFeed, Feed!Spec
=============================================================================
