------------------------ MODULE LogicalSessionProofs ------------------------
(***************************************************************************)
(* What holds of LogicalSession for every set of streams, every period,    *)
(* either setting of break_at_end_lsn and every bound.                     *)
(***************************************************************************)
EXTENDS LogicalSession, WellFoundedInduction, TLAPS

(***************************************************************************)
(* The lowest bookmark: it is one of them and none is below it.            *)
(***************************************************************************)
LEMMA MinLsn ==
    ASSUME NEW b \in [Streams -> Nat]
    PROVE  /\ CommittedMinLsn(b) \in Nat
           /\ \E s \in Streams : CommittedMinLsn(b) = b[s]
           /\ \A s \in Streams : CommittedMinLsn(b) <= b[s]
<1> DEFINE T == {b[s] : s \in Streams}
           R == OpToRel(<, Nat)
<1>1. T \subseteq Nat /\ T # {}
  BY StreamsAssumption
<1>2. \A x, y \in Nat : y < x => <<y, x>> \in R
  BY DEF OpToRel
<1>3. PICK x \in T : \A y \in T : x <= y
  <2>1. IsWellFoundedOn(R, Nat)
    BY NatLessThanWellFounded
  <2> HIDE DEF T, R
  <2>2. PICK x \in T : \A y \in T : ~ (<<y, x>> \in R)
    BY <1>1, <2>1, WFMin
  <2>3. \A y \in T : ~ (y < x)
    BY <1>1, <1>2, <2>2
  <2> QED BY <1>1, <2>3
<1>4. CommittedMinLsn(b) \in T /\ \A y \in T : CommittedMinLsn(b) <= y
  <2> HIDE DEF T
  <2>1. Min(T) \in T /\ \A y \in T : Min(T) <= y
    BY <1>3 DEF Min
  <2> QED BY <2>1 DEF CommittedMinLsn, T
<1> QED BY <1>1, <1>4

-----------------------------------------------------------------------------
(***************************************************************************)
(* The inductive invariant.  NoLoss alone says nothing of a running        *)
(* session, whose bookmarks become the next state file; and a bookmark is  *)
(* an LSN of a change while NoLoss is about commit positions.  What joins  *)
(* them: the server sends by commit order, so once a change with LSN l has *)
(* been sent, everything that committed below l has been sent too.         *)
(***************************************************************************)

\* A change precedes its commit record, and commits order the sequence.
WalOK ==
    /\ \A i \in DOMAIN wal : wal[i].lsn < wal[i].commit /\ wal[i].commit < walEnd
    /\ \A i, j \in DOMAIN wal : i < j => wal[i].commit <= wal[j].commit

\* rows hold everything that committed below pos, and always will: nothing
\* commits below pos any more.
Backed(rows, pos) == pos <= walEnd /\ Covered(rows, pos)

SlotOK == Backed(durable, confirmed)
FileOK == Backed(durable, CommittedMinLsn(file))
PipeOK ==
    \A k \in DOMAIN pipe : Backed(durable \cup pipe[k].rows, CommittedMinLsn(pipe[k].lsn))

\* pos is the LSN of a change sent: everything below it has been sent too.
SentPast(pos) ==
    /\ pos < walEnd
    /\ Backed(durable \cup emitted, pos)
    /\ \A i \in sent + 1 .. Len(wal) : wal[i].commit > pos

SessionOK ==
    running =>
        /\ \A i \in 1 .. sent : Wanted(i) => i \in durable \cup emitted
        /\ state \in Bookmarks
        /\ Backed(durable, committed_lsn)
        /\ committed_lsn # NoLsn
        /\ SentPast(last_processed_lsn)
        /\ SentPast(last_fully_processed_lsn)
        /\ Backed(durable \cup emitted, CommittedMinLsn(state))

\* Until the first message nothing moves the state file under the session.
FreshOK ==
    running /\ ~received_first_message =>
        committed_lsn = CommittedMinLsn(file) /\ pipe = << >>

\* A process that is gone left nothing of its session behind.
IdleOK ==
    ~running =>
        /\ last_processed_lsn = NoLsn
        /\ last_fully_processed_lsn = NoLsn
        /\ ~received_first_message

IInv ==
    /\ TypeOK
    /\ WalOK
    /\ SlotOK
    /\ FileOK
    /\ PipeOK
    /\ SessionOK
    /\ FreshOK
    /\ IdleOK

-----------------------------------------------------------------------------
(***************************************************************************)
(* Facts about sequences.                                                  *)
(***************************************************************************)

LEMMA SeqElement ==
    ASSUME NEW R, NEW q \in Seq(R), NEW k \in DOMAIN q
    PROVE  q[k] \in R
OBVIOUS

LEMMA SeqMonotone ==
    ASSUME NEW R, NEW T, R \subseteq T, NEW q \in Seq(R)
    PROVE  q \in Seq(T)
<1>1. \A k \in 1 .. Len(q) : q[k] \in T
  OBVIOUS
<1> QED BY <1>1

-----------------------------------------------------------------------------
(***************************************************************************)
(* Facts about positions.                                                  *)
(***************************************************************************)

LEMMA WalType ==
    ASSUME TypeOK
    PROVE  /\ walEnd \in Nat /\ Len(wal) \in Nat
           /\ DOMAIN wal = 1 .. Len(wal)
           /\ \A i \in DOMAIN wal : wal[i] \in Change
           /\ \A i \in DOMAIN wal : wal[i].commit \in Nat /\ wal[i].lsn \in Nat \ {0}
<1>1. wal \in Seq(Change) /\ walEnd \in Nat
  BY DEF TypeOK, Lsn
<1>2. \A i \in DOMAIN wal : wal[i] \in Change
  BY <1>1
<1> QED BY <1>1, <1>2 DEF Change, Lsn

LEMMA BackedBelow ==
    ASSUME TypeOK, NEW rows, NEW p \in Nat, NEW q \in Nat, Backed(rows, p), q <= p
    PROVE  Backed(rows, q)
<1>1. q <= walEnd
  BY WalType DEF Backed
<1>2. \A i \in DOMAIN wal : wal[i].commit < q => wal[i].commit < p
  BY WalType
<1> QED BY <1>1, <1>2 DEF Backed, Covered

LEMMA BackedMore ==
    ASSUME NEW rows, NEW more, NEW p, Backed(rows, p), rows \subseteq more
    PROVE  Backed(more, p)
BY DEF Backed, Covered

\* All bookmarks are backed as soon as one is.
LEMMA BackedByOne ==
    ASSUME TypeOK, NEW rows, NEW b \in [Streams -> Nat], NEW s \in Streams,
           Backed(rows, b[s])
    PROVE  Backed(rows, CommittedMinLsn(b))
<1>1. CommittedMinLsn(b) \in Nat /\ CommittedMinLsn(b) <= b[s] /\ b[s] \in Nat
  BY MinLsn
<1> QED BY <1>1, BackedBelow

\* What a transaction adds leaves every position handed out so far backed.
LEMMA TransactionType ==
    ASSUME NEW c \in Nat, NEW t \in Transactions(c)
    PROVE  /\ t \in Seq(Change)
           /\ \A i \in DOMAIN t : t[i].lsn < t[i].commit /\ t[i].commit = c
<1>1. PICK n \in 1 .. MaxRows :
          t \in [1 .. n -> [lsn : (1 .. c - 1) \ UsedLsns, commit : {c},
                            stream : Streams \cup {NoStream}]]
  BY DEF Transactions
<1>2. \A i \in 1 .. n : t[i] \in Change /\ t[i].lsn < t[i].commit /\ t[i].commit = c
  BY <1>1 DEF Change, Lsn
<1>3. n \in Nat
  BY BoundsAssumption
<1> QED BY <1>1, <1>2, <1>3

LEMMA CommitGrowsWal ==
    ASSUME TypeOK, WalOK, CommitTransaction
    PROVE  /\ WalOK' /\ wal' \in Seq(Change) /\ walEnd' \in Nat /\ walEnd' > walEnd
           /\ Len(wal') >= Len(wal)
           /\ \A i \in DOMAIN wal : i \in DOMAIN wal' /\ wal'[i] = wal[i]
           /\ \A i \in DOMAIN wal' \ DOMAIN wal : wal'[i].commit >= walEnd
<1>1. PICK c \in walEnd .. MaxLsn : \E t \in Transactions(c) :
          wal' = wal \o t /\ walEnd' = c + 1
  BY DEF CommitTransaction
<1>2. PICK t \in Transactions(c) : wal' = wal \o t /\ walEnd' = c + 1
  BY <1>1
<1>3. c \in Nat /\ c >= walEnd /\ wal \in Seq(Change) /\ Len(wal) \in Nat
  BY WalType, BoundsAssumption DEF TypeOK
<1>4. /\ t \in Seq(Change) /\ Len(t) \in Nat
      /\ \A i \in 1 .. Len(t) : t[i].lsn < t[i].commit /\ t[i].commit = c
  BY <1>3, TransactionType
<1>5. /\ wal' \in Seq(Change)
      /\ Len(wal') = Len(wal) + Len(t)
      /\ \A i \in 1 .. Len(wal) : wal'[i] = wal[i]
      /\ \A i \in Len(wal) + 1 .. Len(wal') : wal'[i] = t[i - Len(wal)]
  BY <1>2, <1>3, <1>4
<1>6. \A i \in Len(wal) + 1 .. Len(wal') : wal'[i].lsn < wal'[i].commit /\ wal'[i].commit = c
  BY <1>3, <1>4, <1>5
<1>7. \A i \in 1 .. Len(wal) : /\ wal'[i].lsn < wal'[i].commit
                               /\ wal'[i].commit < walEnd /\ wal'[i].commit \in Nat
  BY <1>5, WalType DEF WalOK
<1>8. \A i, j \in 1 .. Len(wal') : i < j => wal'[i].commit <= wal'[j].commit
  <2>1. \A i, j \in 1 .. Len(wal) : i < j => wal'[i].commit <= wal'[j].commit
    BY <1>5, WalType DEF WalOK
  <2>2. ASSUME NEW i \in 1 .. Len(wal'), NEW j \in Len(wal) + 1 .. Len(wal')
        PROVE  wal'[i].commit <= wal'[j].commit
    <3>1. wal'[j].commit = c
      BY <1>6
    <3>2. wal'[i].commit \in Nat /\ wal'[i].commit <= c
      <4>1. CASE i \in 1 .. Len(wal)
        BY <1>3, <1>7, <4>1, WalType
      <4>2. CASE i \in Len(wal) + 1 .. Len(wal')
        BY <1>3, <1>6, <4>2
      <4> QED BY <1>3, <1>4, <1>5, <4>1, <4>2
    <3> QED BY <3>1, <3>2
  <2>3. ASSUME NEW i \in 1 .. Len(wal'), NEW j \in 1 .. Len(wal'), i < j,
               j \notin Len(wal) + 1 .. Len(wal')
        PROVE  i \in 1 .. Len(wal) /\ j \in 1 .. Len(wal)
    BY <1>3, <1>4, <1>5, <2>3
  <2> QED BY <2>1, <2>2, <2>3
<1>9. WalOK'
  <2>1. DOMAIN wal' = 1 .. Len(wal')
    BY <1>5
  <2>2. ASSUME NEW i \in 1 .. Len(wal')
        PROVE  wal'[i].lsn < wal'[i].commit /\ wal'[i].commit < walEnd'
    <3>1. CASE i \in 1 .. Len(wal)
      BY <1>2, <1>3, <1>7, <3>1, WalType
    <3>2. CASE i \in Len(wal) + 1 .. Len(wal')
      BY <1>2, <1>3, <1>6, <3>2
    <3> QED BY <1>3, <1>4, <1>5, <3>1, <3>2
  <2> QED BY <1>8, <2>1, <2>2 DEF WalOK
<1> QED BY <1>2, <1>3, <1>4, <1>5, <1>6, <1>9, WalType

LEMMA BackedAfterCommit ==
    ASSUME TypeOK, WalOK, CommitTransaction, NEW rows, NEW p \in Nat, Backed(rows, p)
    PROVE  p <= walEnd' /\ \A i \in DOMAIN wal' : Wanted(i)' /\ wal'[i].commit < p => i \in rows
<1>1. p <= walEnd'
  BY CommitGrowsWal, WalType DEF Backed
<1>2. ASSUME NEW i \in DOMAIN wal', Wanted(i)', wal'[i].commit < p
      PROVE  i \in rows
  <2>1. wal'[i] \in Change /\ wal'[i].commit \in Nat
    <3>1. wal'[i] \in Change
      BY CommitGrowsWal
    <3> QED BY <3>1 DEF Change, Lsn
  <2>2. i \in DOMAIN wal
    BY <1>2, <2>1, CommitGrowsWal, WalType DEF Backed
  <2> QED BY <1>2, <2>2, CommitGrowsWal DEF Backed, Covered, Wanted
<1> QED BY <1>1, <1>2

-----------------------------------------------------------------------------
(***************************************************************************)
(* The invariant is inductive: one lemma per action, or per group of       *)
(* actions that end a session in the same way.                             *)
(***************************************************************************)

LEMMA InitIInv == Init => IInv
<1> SUFFICES ASSUME Init PROVE IInv
  OBVIOUS
<1>1. file \in Bookmarks /\ file \in [Streams -> Nat]
  BY BoundsAssumption DEF Init, Bookmarks, Lsn
<1>2. CommittedMinLsn(file) \in Nat /\ CommittedMinLsn(file) <= InitialEnd
  BY <1>1, MinLsn, BoundsAssumption DEF Init
<1>3. wal = << >> /\ pipe = << >> /\ DOMAIN wal = {} /\ DOMAIN pipe = {} /\ ~running
  BY DEF Init
<1>4. TypeOK
  <2>1. wal \in Seq(Change) /\ pipe \in Seq([lsn : Bookmarks, rows : SUBSET DOMAIN wal])
    BY <1>3
  <2>2. confirmed \in Lsn /\ walEnd \in Lsn
    BY <1>2, BoundsAssumption DEF Init, Lsn
  <2>3. state \in [Streams -> Nat] /\ sent \in 0 .. Len(wal)
    BY <1>3 DEF Init, WriteAllBookmarks, NoLsn
  <2>4. emitted \subseteq DOMAIN wal /\ durable \subseteq DOMAIN wal
    BY DEF Init
  <2> QED BY <1>1, <2>1, <2>2, <2>3, <2>4 DEF Init, TypeOK, NoLsn
<1>5. WalOK /\ PipeOK /\ SessionOK /\ FreshOK /\ IdleOK
  BY <1>3 DEF Init, WalOK, PipeOK, SessionOK, FreshOK, IdleOK
<1>6. SlotOK /\ FileOK
  BY <1>2, <1>3, BoundsAssumption DEF Init, SlotOK, FileOK, Backed, Covered
<1> QED BY <1>4, <1>5, <1>6 DEF IInv

\* The bookmarks a message in flight carries have a lowest one too.
LEMMA Positions ==
    ASSUME TypeOK
    PROVE  /\ CommittedMinLsn(file) \in Nat \ {0}
           /\ CommittedMinLsn(state) \in Nat
           /\ \A k \in DOMAIN pipe :
                  /\ pipe[k] \in [lsn : Bookmarks, rows : SUBSET DOMAIN wal]
                  /\ CommittedMinLsn(pipe[k].lsn) \in Nat
           /\ confirmed \in Nat \ {0}
<1>1. file \in [Streams -> Nat] /\ \A s \in Streams : file[s] # 0
  BY DEF TypeOK, Bookmarks, Lsn
<1>2. CommittedMinLsn(file) \in Nat \ {0}
  BY <1>1, MinLsn
<1>3. CommittedMinLsn(state) \in Nat
  BY MinLsn DEF TypeOK
<1>4. ASSUME NEW k \in DOMAIN pipe
      PROVE  /\ pipe[k] \in [lsn : Bookmarks, rows : SUBSET DOMAIN wal]
             /\ CommittedMinLsn(pipe[k].lsn) \in Nat
  <2>1. pipe[k] \in [lsn : Bookmarks, rows : SUBSET DOMAIN wal]
    BY SeqElement DEF TypeOK
  <2>2. pipe[k].lsn \in [Streams -> Nat]
    BY <2>1 DEF Bookmarks, Lsn
  <2> QED BY <2>1, <2>2, MinLsn
<1> QED BY <1>2, <1>3, <1>4 DEF TypeOK, Lsn

LEMMA CommitTransactionInv == ASSUME IInv, CommitTransaction PROVE IInv'
<1> USE DEF server, progress, session, downstream
<1>1. UNCHANGED <<confirmed, sent, session, downstream, interruptions>>
  BY DEF CommitTransaction
<1>2. DOMAIN wal \subseteq DOMAIN wal' /\ Len(wal') >= Len(wal) /\ Len(wal') \in Nat
  BY CommitGrowsWal, WalType DEF IInv
<1>3. TypeOK'
  <2>1. wal' \in Seq(Change) /\ walEnd' \in Lsn
    BY CommitGrowsWal, WalType DEF IInv, Lsn
  <2>2. sent' \in 0 .. Len(wal')
    BY <1>1, <1>2, WalType DEF IInv, TypeOK
  <2>3. pipe' \in Seq([lsn : Bookmarks, rows : SUBSET DOMAIN wal'])
    <3>1. [lsn : Bookmarks, rows : SUBSET DOMAIN wal]
              \subseteq [lsn : Bookmarks, rows : SUBSET DOMAIN wal']
      BY <1>2
    <3>2. pipe \in Seq([lsn : Bookmarks, rows : SUBSET DOMAIN wal])
      BY DEF IInv, TypeOK
    <3> HIDE DEF Bookmarks
    <3>3. pipe \in Seq([lsn : Bookmarks, rows : SUBSET DOMAIN wal'])
      BY <3>1, <3>2, SeqMonotone
    <3> QED BY <1>1, <3>3
  <2> QED BY <1>1, <1>2, <2>1, <2>2, <2>3 DEF IInv, TypeOK
<1>4. WalOK'
  BY CommitGrowsWal DEF IInv
<1>5. ASSUME NEW rows, NEW p \in Nat, Backed(rows, p)
      PROVE  p <= walEnd' /\ \A i \in DOMAIN wal' : Wanted(i)' /\ wal'[i].commit < p => i \in rows
  BY <1>5, BackedAfterCommit DEF IInv
<1>6. SlotOK' /\ FileOK' /\ PipeOK'
  BY <1>1, <1>5, Positions DEF IInv, SlotOK, FileOK, PipeOK, Backed, Covered
<1>7. SessionOK'
  <2> SUFFICES ASSUME running PROVE SessionOK'
    BY <1>1 DEF SessionOK
  <2>1. \A i \in 1 .. sent : Wanted(i)' => i \in durable \cup emitted
    <3>1. \A i \in 1 .. sent : i \in DOMAIN wal
      BY WalType DEF IInv, TypeOK
    <3>2. \A i \in DOMAIN wal : wal'[i] = wal[i]
      BY CommitGrowsWal DEF IInv
    <3> QED BY <3>1, <3>2 DEF IInv, SessionOK, Wanted
  <2>2. ASSUME NEW p \in Nat, SentPast(p) PROVE SentPast(p)'
    <3>1. Backed(durable \cup emitted, p)'
      BY <1>1, <1>5, <2>2 DEF SentPast, Backed, Covered
    <3>2. ASSUME NEW i \in sent + 1 .. Len(wal') PROVE wal'[i].commit > p
      <4>1. CASE i \in DOMAIN wal
        BY <2>2, <4>1, CommitGrowsWal, WalType DEF IInv, TypeOK, SentPast
      <4>2. CASE i \notin DOMAIN wal
        <5>1. i \in DOMAIN wal'
          BY <1>2, CommitGrowsWal, WalType DEF IInv, TypeOK
        <5>2. wal'[i] \in Change
          BY <5>1, CommitGrowsWal, SeqElement DEF IInv
        <5>3. wal'[i].commit \in Nat
          BY <5>2 DEF Change, Lsn
        <5> QED BY <2>2, <4>2, <5>1, <5>3, CommitGrowsWal, WalType DEF IInv, SentPast
      <4> QED BY <4>1, <4>2
    <3>3. p < walEnd'
      BY <2>2, CommitGrowsWal, WalType DEF IInv, SentPast
    <3> QED BY <1>1, <3>1, <3>2, <3>3 DEF SentPast
  <2> QED BY <1>1, <1>5, <2>1, <2>2, Positions DEF IInv, TypeOK, SessionOK, Backed, Covered
<1>8. FreshOK' /\ IdleOK'
  BY <1>1 DEF IInv, FreshOK, IdleOK
<1> QED BY <1>3, <1>4, <1>6, <1>7, <1>8 DEF IInv

LEMMA OtherWalInv == ASSUME IInv, OtherWal PROVE IInv'
<1> USE DEF server, progress, session, downstream
<1>1. UNCHANGED <<wal, confirmed, sent, session, downstream, interruptions>>
  BY DEF OtherWal
<1>2. walEnd' \in Nat /\ walEnd' = walEnd + 1
  BY WalType DEF IInv, OtherWal
<1>3. TypeOK'
  BY <1>1, <1>2, WalType DEF IInv, TypeOK, Lsn
<1>4. WalOK'
  BY <1>1, <1>2, WalType DEF IInv, WalOK
<1>5. ASSUME NEW rows, NEW p \in Nat, Backed(rows, p) PROVE Backed(rows, p)'
  BY <1>1, <1>2, <1>5, WalType DEF IInv, Backed, Covered, Wanted
<1>6. SlotOK' /\ FileOK' /\ PipeOK'
  BY <1>1, <1>5, Positions DEF IInv, SlotOK, FileOK, PipeOK, Backed, Covered
<1>7. SessionOK'
  <2>1. ASSUME NEW p \in Nat, SentPast(p) PROVE SentPast(p)'
    <3>1. Backed(durable \cup emitted, p)'
      BY <1>1, <1>5, <2>1 DEF SentPast, Backed, Covered
    <3>2. p < walEnd'
      BY <1>2, <2>1, WalType DEF IInv, SentPast
    <3> QED BY <1>1, <2>1, <3>1, <3>2 DEF SentPast
  <2> QED BY <1>1, <1>5, <2>1, Positions DEF IInv, TypeOK, SessionOK, Backed, Covered, Wanted
<1>8. FreshOK' /\ IdleOK'
  BY <1>1 DEF IInv, FreshOK, IdleOK
<1> QED BY <1>3, <1>4, <1>6, <1>7, <1>8 DEF IInv

LEMMA StartRunInv == ASSUME IInv, StartRun PROVE IInv'
<1> USE DEF downstream, progress
<1>1. /\ UNCHANGED <<wal, walEnd, confirmed, flushed_lsn, progress,
                     received_first_message, emitted, downstream, interruptions>>
      /\ running' = TRUE /\ state' = file /\ end_lsn' = walEnd
      /\ committed_lsn' = CommittedMinLsn(file)
  BY DEF StartRun
<1>2. /\ sent' \in 0 .. Len(wal)
      /\ \A i \in 1 .. sent' :
             wal[i].commit < CommittedMinLsn(file) \/ wal[i].commit < confirmed
  BY Positions, WalType DEF IInv, StartRun, StartReplication, Larger
<1>3. TypeOK'
  BY <1>1, <1>2, Positions, WalType DEF IInv, TypeOK, Bookmarks, Lsn
<1>4. WalOK' /\ SlotOK' /\ FileOK' /\ PipeOK'
  BY <1>1 DEF IInv, WalOK, SlotOK, FileOK, PipeOK, Backed, Covered, Wanted
<1>5. \A i \in 1 .. sent' : Wanted(i) => i \in durable
  BY <1>2, WalType DEF IInv, SlotOK, FileOK, Backed, Covered
<1>6. SessionOK'
  <2>1. /\ last_processed_lsn' = NoLsn /\ last_fully_processed_lsn' = NoLsn
        /\ NoLsn \in Nat /\ NoLsn < walEnd
    BY <1>1, Positions, WalType DEF IInv, IdleOK, StartRun, NoLsn, TypeOK, Lsn
  <2>2. SentPast(NoLsn)'
    <3>1. Backed(durable \cup emitted, NoLsn)'
      BY <1>1, <2>1, WalType DEF IInv, Backed, Covered, NoLsn
    <3>2. \A i \in sent' + 1 .. Len(wal) : wal[i].commit > NoLsn
      <4>1. \A i \in DOMAIN wal : wal[i].commit > 0
        BY WalType DEF IInv, WalOK
      <4>2. \A i \in sent' + 1 .. Len(wal) : i \in DOMAIN wal
        <5>1. Len(wal) \in Nat /\ DOMAIN wal = 1 .. Len(wal)
          BY WalType DEF IInv
        <5>2. PICK n \in Nat : sent' = n
          BY <1>2, <5>1
        <5>3. \A i \in n + 1 .. Len(wal) : i \in 1 .. Len(wal)
          BY <5>1, <5>2
        <5> QED BY <5>1, <5>2, <5>3
      <4> QED BY <4>1, <4>2 DEF NoLsn
    <3> QED BY <1>1, <2>1, <3>1, <3>2 DEF SentPast
  <2>3. \A i \in 1 .. sent' : Wanted(i)' => i \in (durable \cup emitted)'
    BY <1>1, <1>5 DEF Wanted
  <2>4. Backed(durable, committed_lsn)' /\ Backed(durable \cup emitted, CommittedMinLsn(state))'
    BY <1>1, <1>4 DEF FileOK, Backed, Covered
  <2>5. state' \in Bookmarks /\ committed_lsn' # NoLsn
    BY <1>1, Positions DEF IInv, TypeOK, NoLsn
  <2> QED BY <2>1, <2>2, <2>3, <2>4, <2>5 DEF SessionOK
<1>7. FreshOK' /\ IdleOK'
  BY <1>1 DEF IInv, FreshOK, IdleOK, StartRun
<1> QED BY <1>3, <1>4, <1>6, <1>7 DEF IInv

\* The flush position on the first message is a position the target has.
LEMMA FlushBacked ==
    ASSUME IInv, running, NEW m \in DOMAIN wal
    PROVE  LET to == Larger(confirmed, FirstFlush(wal[m].lsn))
           IN  to \in Lsn /\ Backed(durable, to)
<1>1. committed_lsn \in Nat \ {0} /\ wal[m].lsn \in Nat \ {0}
  BY WalType DEF IInv, TypeOK, SessionOK, NoLsn
<1>2. FirstFlush(wal[m].lsn) \in Nat \ {0} /\ FirstFlush(wal[m].lsn) <= committed_lsn
  BY <1>1 DEF FirstFlush, Smaller
<1>3. Backed(durable, FirstFlush(wal[m].lsn))
  BY <1>1, <1>2, BackedBelow DEF IInv, SessionOK
<1> QED BY <1>2, <1>3, Positions DEF IInv, SlotOK, Larger, Lsn

LEMMA FeedbackInv == ASSUME IInv, Feedback PROVE IInv'
<1> USE DEF downstream, progress
<1>1. /\ running
      /\ committed_lsn' = Larger(CommittedMinLsn(file), committed_lsn)
      /\ UNCHANGED <<wal, walEnd, sent, running, state, end_lsn, progress,
                     received_first_message, emitted, downstream, interruptions>>
  BY DEF Feedback
<1>2. \/ /\ confirmed' = Larger(confirmed, CommittedMinLsn(file))
         /\ flushed_lsn' = CommittedMinLsn(file)
      \/ UNCHANGED <<confirmed, flushed_lsn>>
  BY DEF Feedback, SendFeedback
<1>3. confirmed' \in {confirmed, CommittedMinLsn(file)}
      /\ committed_lsn' \in {committed_lsn, CommittedMinLsn(file)}
      /\ flushed_lsn' \in {flushed_lsn, CommittedMinLsn(file)}
  BY <1>1, <1>2 DEF Larger
<1>4. TypeOK'
  BY <1>1, <1>3, Positions DEF IInv, TypeOK, Lsn
<1>5. WalOK' /\ FileOK' /\ PipeOK'
  BY <1>1 DEF IInv, WalOK, FileOK, PipeOK, Backed, Covered, Wanted
<1>6. SlotOK'
  BY <1>1, <1>3 DEF IInv, SlotOK, FileOK, Backed, Covered, Wanted
<1>7. SessionOK'
  <2>1. Backed(durable, committed_lsn)' /\ committed_lsn' # NoLsn
    BY <1>1, <1>3, Positions DEF IInv, SessionOK, FileOK, Backed, Covered, Wanted, NoLsn
  <2> QED BY <1>1, <2>1 DEF IInv, SessionOK, SentPast, Backed, Covered, Wanted
<1>8. FreshOK' /\ IdleOK'
  BY <1>1, <1>3 DEF IInv, FreshOK, IdleOK
<1> QED BY <1>4, <1>5, <1>6, <1>7, <1>8 DEF IInv

LEMMA TargetCommitInv == ASSUME IInv, TargetCommit PROVE IInv'
<1> USE DEF server, progress, session
<1>1. /\ pipe # << >>
      /\ durable' = durable \cup Head(pipe).rows
      /\ file' = Head(pipe).lsn
      /\ pipe' = Tail(pipe)
      /\ UNCHANGED <<server, session, interruptions>>
  BY DEF TargetCommit
<1> DEFINE M == [lsn : Bookmarks, rows : SUBSET DOMAIN wal]
<1>2. pipe \in Seq(M) /\ 1 \in DOMAIN pipe /\ Head(pipe) = pipe[1]
  <2>1. pipe \in Seq(M)
    BY DEF IInv, TypeOK
  <2> HIDE DEF M
  <2> QED BY <1>1, <2>1
<1>3. /\ pipe' \in Seq(M)
      /\ \A k \in DOMAIN pipe' : k + 1 \in DOMAIN pipe /\ pipe'[k] = pipe[k + 1]
  <2> HIDE DEF M
  <2> QED BY <1>1, <1>2
<1>4. pipe[1] \in M
  <2> HIDE DEF M
  <2> QED BY <1>2, SeqElement
<1>5. TypeOK'
  BY <1>1, <1>2, <1>3, <1>4 DEF IInv, TypeOK
<1>6. WalOK'
  BY <1>1 DEF IInv, WalOK
<1>7. ASSUME NEW rows, NEW p, Backed(rows, p)
      PROVE  Backed(rows, p)'
  BY <1>1, <1>7 DEF Backed, Covered, Wanted
<1>8. FileOK'
  BY <1>1, <1>2, <1>7 DEF IInv, PipeOK, FileOK, Backed, Covered
<1>9. SlotOK'
  BY <1>1 DEF IInv, SlotOK, Backed, Covered, Wanted
<1>10. PipeOK'
  BY <1>1, <1>3 DEF IInv, PipeOK, Backed, Covered, Wanted
<1>11. SessionOK'
  BY <1>1 DEF IInv, SessionOK, SentPast, Backed, Covered, Wanted
<1>12. FreshOK' /\ IdleOK'
  BY <1>1 DEF IInv, FreshOK, IdleOK
<1> QED BY <1>5, <1>6, <1>8, <1>9, <1>10, <1>11, <1>12 DEF IInv

\* A STATE message may be emitted when the records before it back it.
LEMMA EmitStateInv ==
    ASSUME IInv, NEW b \in Bookmarks, NEW rows \in SUBSET DOMAIN wal,
           Backed(durable \cup rows, CommittedMinLsn(b)),
           UNCHANGED <<wal, walEnd, durable>>, EmitState(b, rows)
    PROVE  pipe' \in Seq([lsn : Bookmarks, rows : SUBSET DOMAIN wal]) /\ PipeOK'
<1> DEFINE M == [lsn : Bookmarks, rows : SUBSET DOMAIN wal]
           msg == [lsn |-> b, rows |-> rows]
<1>1. pipe \in Seq(M) /\ msg \in M /\ pipe' = Append(pipe, msg)
  BY DEF IInv, TypeOK, EmitState
<1>2. /\ pipe' \in Seq(M)
      /\ \A k \in DOMAIN pipe' :
             (k \in DOMAIN pipe /\ pipe'[k] = pipe[k]) \/ pipe'[k] = msg
  <2> HIDE DEF M, msg
  <2> QED BY <1>1
<1>3. PipeOK'
  BY <1>2 DEF IInv, PipeOK, Backed, Covered, Wanted
<1> QED BY <1>2, <1>3

\* WriteAllBookmarks writes the same position everywhere.
LEMMA AllBookmarks ==
    ASSUME NEW p \in Lsn
    PROVE  WriteAllBookmarks(p) \in Bookmarks /\ CommittedMinLsn(WriteAllBookmarks(p)) = p
<1>1. WriteAllBookmarks(p) \in Bookmarks /\ WriteAllBookmarks(p) \in [Streams -> Nat]
  BY DEF WriteAllBookmarks, Bookmarks, Lsn
<1> QED BY <1>1, MinLsn DEF WriteAllBookmarks

\* What is left once the process is gone, however it went.
LEMMA NoSessionInv ==
    ASSUME IInv, NoSession, UNCHANGED <<wal, walEnd, file>>,
           interruptions' \in Nat,
           confirmed' \in Lsn, Backed(durable, confirmed'),
           durable' \subseteq DOMAIN wal, durable \subseteq durable',
           pipe' \in Seq([lsn : Bookmarks, rows : SUBSET DOMAIN wal]), PipeOK'
    PROVE  IInv'
<1>1. TypeOK'
  <2>1. state' \in [Streams -> Nat] /\ sent' \in 0 .. Len(wal)
    BY WalType DEF IInv, NoSession, WriteAllBookmarks, NoLsn
  <2> QED BY <2>1 DEF IInv, TypeOK, NoSession, NoLsn
<1>2. WalOK'
  BY DEF IInv, WalOK
<1>3. SlotOK' /\ FileOK'
  BY DEF IInv, SlotOK, FileOK, Backed, Covered, Wanted
<1>4. SessionOK' /\ FreshOK' /\ IdleOK'
  BY DEF NoSession, SessionOK, FreshOK, IdleOK
<1> QED BY <1>1, <1>2, <1>3, <1>4 DEF IInv

\* The bookmarks a session ends with are backed by what it wrote.
LEMMA FinalBookmarksBacked ==
    ASSUME IInv, running
    PROVE  /\ FinalBookmarks \in Bookmarks
           /\ Backed(durable \cup emitted, CommittedMinLsn(FinalBookmarks))
<1>1. CASE last_fully_processed_lsn = NoLsn
  BY <1>1 DEF IInv, SessionOK, FinalBookmarks
<1>2. CASE last_fully_processed_lsn # NoLsn
  <2> DEFINE final == Larger(last_fully_processed_lsn, committed_lsn)
  <2>1. final \in Lsn /\ final \in {last_fully_processed_lsn, committed_lsn}
    BY <1>2 DEF IInv, TypeOK, SessionOK, Larger, Lsn, NoLsn
  <2>2. Backed(durable \cup emitted, final)
    BY <2>1 DEF IInv, SessionOK, SentPast, Backed, Covered
  <2>3. FinalBookmarks = WriteAllBookmarks(final)
    BY <1>2 DEF FinalBookmarks
  <2> QED BY <2>1, <2>2, <2>3, AllBookmarks
<1> QED BY <1>1, <1>2

LEMMA FinalizeInv ==
    ASSUME IInv, running, Finalize, interruptions' \in Nat,
           confirmed' \in Lsn, Backed(durable, confirmed')
    PROVE  IInv'
<1>1. /\ EmitState(FinalBookmarks, emitted) /\ NoSession
      /\ UNCHANGED <<wal, walEnd, file, durable>>
  BY DEF Finalize
<1>2. emitted \in SUBSET DOMAIN wal /\ durable \subseteq DOMAIN wal
  BY DEF IInv, TypeOK
<1>3. pipe' \in Seq([lsn : Bookmarks, rows : SUBSET DOMAIN wal]) /\ PipeOK'
  BY <1>1, <1>2, FinalBookmarksBacked, EmitStateInv
<1> QED BY <1>1, <1>2, <1>3, NoSessionInv

LEMMA SessionEndInv ==
    ASSUME IInv, SessionEnds \/ StopEarly \/ ConsumeFails
    PROVE  IInv'
<1>1. running /\ Finalize
  BY DEF SessionEnds, StopBeyondEnd, StopOnKeepalive, StopWhenIdle, StopEarly, ConsumeFails
<1>2. interruptions' \in Nat
  BY DEF IInv, TypeOK, SessionEnds, StopBeyondEnd, StopOnKeepalive, StopWhenIdle, StopEarly,
         ConsumeFails, Interrupt
<1>3. CASE ConsumeFails
  <2>1. sent + 1 \in DOMAIN wal
    BY <1>3, WalType DEF IInv, TypeOK, ConsumeFails
  <2>2. confirmed' \in Lsn /\ Backed(durable, confirmed')
    BY <1>1, <1>3, <2>1, FlushBacked, Positions DEF IInv, SlotOK, ConsumeFails, TypeOK
  <2> QED BY <1>1, <1>2, <2>2, FinalizeInv
<1>4. CASE SessionEnds \/ StopEarly
  <2>1. UNCHANGED confirmed
    BY <1>4 DEF SessionEnds, StopBeyondEnd, StopOnKeepalive, StopWhenIdle, StopEarly
  <2>2. confirmed' \in Lsn /\ Backed(durable, confirmed')
    BY <2>1 DEF IInv, TypeOK, SlotOK
  <2> QED BY <1>1, <1>2, <2>2, FinalizeInv
<1> QED BY <1>3, <1>4

LEMMA CrashInv == ASSUME IInv, TapCrash \/ PipelineCrash PROVE IInv'
<1>1. /\ NoSession /\ UNCHANGED <<wal, walEnd, file, confirmed>> /\ interruptions' \in Nat
  BY DEF IInv, TypeOK, TapCrash, PipelineCrash, Interrupt, downstream
<1>2. confirmed' \in Lsn /\ Backed(durable, confirmed')
  BY <1>1 DEF IInv, TypeOK, SlotOK
<1>3. CASE TapCrash
  <2>1. UNCHANGED <<pipe, durable>>
    BY <1>3 DEF TapCrash, downstream
  <2>2. pipe' \in Seq([lsn : Bookmarks, rows : SUBSET DOMAIN wal]) /\ PipeOK'
    BY <1>1, <2>1 DEF IInv, TypeOK, PipeOK, Backed, Covered, Wanted
  <2> QED BY <1>1, <1>2, <2>1, <2>2, NoSessionInv DEF IInv, TypeOK
<1>4. CASE PipelineCrash
  <2>1. pipe' = << >> /\ PipeOK'
    BY <1>4 DEF PipelineCrash, PipeOK
  <2>2. durable' \subseteq DOMAIN wal /\ durable \subseteq durable'
    <3>1. durable \subseteq DOMAIN wal
      BY DEF IInv, TypeOK
    <3>2. CASE UNCHANGED durable
      BY <3>1, <3>2
    <3>3. CASE pipe # << >> /\ durable' = durable \cup Head(pipe).rows
      <4> DEFINE M == [lsn : Bookmarks, rows : SUBSET DOMAIN wal]
      <4>1. pipe \in Seq(M)
        BY DEF IInv, TypeOK
      <4>2. Head(pipe) \in M
        <5> HIDE DEF M
        <5> QED BY <3>3, <4>1
      <4> QED BY <3>1, <3>3, <4>2
    <3> QED BY <1>4, <3>2, <3>3 DEF PipelineCrash
  <2> QED BY <1>1, <1>2, <2>1, <2>2, NoSessionInv
<1> QED BY <1>3, <1>4

\* The step the argument turns on: with one more change sent, everything that
\* committed below its LSN has been sent, because the server goes by commit.
LEMMA SentOneMore ==
    ASSUME IInv, running, sent < Len(wal), NEW rows,
           durable \cup emitted \subseteq rows, Wanted(sent + 1) => sent + 1 \in rows
    PROVE  /\ sent + 1 \in DOMAIN wal
           /\ \A i \in 1 .. sent + 1 : Wanted(i) => i \in rows
           /\ Backed(rows, wal[sent + 1].lsn)
           /\ wal[sent + 1].lsn < walEnd
           /\ \A i \in sent + 2 .. Len(wal) : wal[i].commit > wal[sent + 1].lsn
<1>1. sent \in Nat /\ sent + 1 \in DOMAIN wal
  BY WalType DEF IInv, TypeOK
<1>2. \A i \in 1 .. sent + 1 : Wanted(i) => i \in rows
  BY <1>1 DEF IInv, SessionOK
<1>3. wal[sent + 1].lsn < walEnd
  BY <1>1, WalType DEF IInv, WalOK
<1>4. ASSUME NEW i \in DOMAIN wal, wal[i].commit < wal[sent + 1].lsn
      PROVE  i \in 1 .. sent + 1
  <2>1. wal[sent + 1].lsn < wal[sent + 1].commit
    BY <1>1 DEF IInv, WalOK
  <2>2. sent + 1 < i => wal[sent + 1].commit <= wal[i].commit
    BY <1>1, <1>4 DEF IInv, WalOK
  <2>3. /\ i \in 1 .. Len(wal) /\ Len(wal) \in Nat
        /\ {wal[sent + 1].lsn, wal[sent + 1].commit, wal[i].commit} \subseteq Nat
    BY <1>1, <1>4, WalType DEF IInv
  <2> QED BY <1>1, <1>4, <2>1, <2>2, <2>3
<1>5. Backed(rows, wal[sent + 1].lsn)
  BY <1>1, <1>2, <1>3, <1>4, WalType DEF IInv, Backed, Covered
<1>6. ASSUME NEW i \in sent + 2 .. Len(wal)
      PROVE  wal[i].commit > wal[sent + 1].lsn
  <2>1. i \in DOMAIN wal /\ sent + 1 < i
    BY <1>1, WalType DEF IInv
  <2> QED BY <1>1, <2>1, WalType DEF IInv, WalOK
<1> QED BY <1>1, <1>2, <1>3, <1>5, <1>6

LEMMA ConsumeInv == ASSUME IInv, Consume PROVE IInv'
<1> DEFINE m == wal[sent + 1]
           b == IF m.stream \in Streams THEN [state EXCEPT ![m.stream] = m.lsn] ELSE state
           rows == durable \cup emitted'
<1>1. /\ running /\ sent < Len(wal) /\ sent' = sent + 1
      /\ FlushOnFirstMessage(m.lsn)
      /\ emitted' = IF m.stream \in Streams THEN emitted \cup {sent + 1} ELSE emitted
      /\ RecordProcessed(m.lsn, b, emitted')
      /\ UNCHANGED <<wal, walEnd, running, end_lsn, committed_lsn, file, durable, interruptions>>
  BY DEF Consume, ConsumeMessage
<1>2. durable \cup emitted \subseteq rows /\ (Wanted(sent + 1) => sent + 1 \in rows)
  BY <1>1 DEF Wanted
<1>3. /\ sent + 1 \in DOMAIN wal
      /\ \A i \in 1 .. sent + 1 : Wanted(i) => i \in rows
      /\ Backed(rows, m.lsn) /\ m.lsn < walEnd
      /\ \A i \in sent + 2 .. Len(wal) : wal[i].commit > m.lsn
  BY <1>1, <1>2, SentOneMore
<1>4. m.lsn \in Lsn /\ m.lsn \in Nat
  BY <1>3, WalType DEF IInv, Lsn
<1>5. emitted' \in SUBSET DOMAIN wal
  BY <1>1, <1>3 DEF IInv, TypeOK
<1>6. /\ confirmed' \in Lsn /\ Backed(durable, confirmed')
      /\ flushed_lsn' \in Nat /\ received_first_message' = TRUE
  <2>1. CASE received_first_message
    BY <1>1, <2>1 DEF IInv, TypeOK, SlotOK, FlushOnFirstMessage
  <2>2. CASE ~received_first_message
    <3>1. /\ confirmed' = Larger(confirmed, FirstFlush(m.lsn))
          /\ flushed_lsn' = FirstFlush(m.lsn) /\ received_first_message' = TRUE
      BY <1>1, <2>2 DEF FlushOnFirstMessage, SendFeedback
    <3>2. flushed_lsn' \in Nat
      BY <1>4, <3>1 DEF IInv, TypeOK, FirstFlush, Smaller
    <3> QED BY <1>1, <1>3, <3>1, <3>2, FlushBacked
  <2> QED BY <2>1, <2>2
<1>7. b \in Bookmarks /\ Backed(rows, CommittedMinLsn(b))
  <2>1. state \in Bookmarks /\ Backed(rows, CommittedMinLsn(state))
    BY <1>1, <1>2 DEF IInv, SessionOK, Backed, Covered
  <2>2. CASE m.stream \in Streams
    <3>1. b \in Bookmarks /\ b \in [Streams -> Nat] /\ b[m.stream] = m.lsn
      BY <1>4, <2>1, <2>2 DEF Bookmarks, Lsn
    <3> HIDE DEF b, m, rows
    <3> QED BY <1>3, <2>2, <3>1, BackedByOne DEF IInv
  <2>3. CASE m.stream \notin Streams
    BY <2>1, <2>3
  <2> QED BY <2>2, <2>3
<1>8. /\ last_processed_lsn' = m.lsn
      /\ last_fully_processed_lsn' \in {last_fully_processed_lsn, last_processed_lsn}
      /\ processed_advances' \in {processed_advances, processed_advances + 1}
      /\ \/ state' = b /\ pipe' = pipe
         \/ /\ last_processed_lsn # NoLsn
            /\ state' = WriteAllBookmarks(last_processed_lsn) /\ EmitState(state', emitted')
  BY <1>1 DEF RecordProcessed
<1>9. Backed(rows, last_processed_lsn) /\ Backed(rows, last_fully_processed_lsn)
  BY <1>1, <1>2, BackedMore DEF IInv, SessionOK, SentPast
<1>10. /\ state' \in Bookmarks /\ Backed(rows, CommittedMinLsn(state'))
       /\ pipe' \in Seq([lsn : Bookmarks, rows : SUBSET DOMAIN wal]) /\ PipeOK'
  <2>1. CASE state' = b /\ pipe' = pipe
    <3>1. pipe' \in Seq([lsn : Bookmarks, rows : SUBSET DOMAIN wal]) /\ PipeOK'
      BY <1>1, <2>1 DEF IInv, TypeOK, PipeOK, Backed, Covered, Wanted
    <3> HIDE DEF b, rows
    <3> QED BY <1>7, <2>1, <3>1
  <2>2. CASE /\ last_processed_lsn # NoLsn
             /\ state' = WriteAllBookmarks(last_processed_lsn) /\ EmitState(state', emitted')
    <3>1. last_processed_lsn \in Lsn
      BY <2>2 DEF IInv, TypeOK, Lsn, NoLsn
    <3>2. state' \in Bookmarks /\ Backed(rows, CommittedMinLsn(state'))
      BY <1>9, <2>2, <3>1, AllBookmarks
    <3> QED BY <1>1, <1>5, <2>2, <3>2, EmitStateInv
  <2> QED BY <1>8, <2>1, <2>2
<1>11. TypeOK'
  <2>1. sent' \in 0 .. Len(wal')
    BY <1>1, <1>3, WalType DEF IInv, TypeOK
  <2>2. state' \in [Streams -> Nat]
    BY <1>10 DEF Bookmarks, Lsn
  <2>3. /\ last_processed_lsn' \in Nat /\ last_fully_processed_lsn' \in Nat
        /\ processed_advances' \in Nat
    BY <1>4, <1>8 DEF IInv, TypeOK
  <2>4. /\ confirmed' \in Lsn /\ flushed_lsn' \in Nat /\ received_first_message' \in BOOLEAN
    BY <1>6
  <2> HIDE DEF b, m, rows
  <2> QED BY <1>1, <1>5, <1>10, <2>1, <2>2, <2>3, <2>4 DEF IInv, TypeOK
<1>12. WalOK' /\ SlotOK' /\ FileOK'
  BY <1>1, <1>6 DEF IInv, WalOK, SlotOK, FileOK, Backed, Covered, Wanted
<1>13. SessionOK'
  <2> HIDE DEF m, b
  <2>1. \A i \in sent' + 1 .. Len(wal) : i \in sent + 1 .. Len(wal) /\ i \in sent + 2 .. Len(wal)
    BY <1>1, WalType DEF IInv, TypeOK
  <2>2. SentPast(last_processed_lsn)'
    BY <1>1, <1>3, <1>8, <2>1 DEF m, SentPast, Backed, Covered, Wanted
  <2>3. SentPast(last_fully_processed_lsn)'
    BY <1>1, <1>8, <1>9, <2>1 DEF IInv, SessionOK, SentPast, Backed, Covered, Wanted
  <2>4. \A i \in 1 .. sent' : Wanted(i)' => i \in (durable \cup emitted)'
    BY <1>1, <1>3 DEF Wanted
  <2>5. Backed(durable, committed_lsn)' /\ committed_lsn' # NoLsn
    BY <1>1 DEF IInv, SessionOK, Backed, Covered, Wanted
  <2>6. Backed(durable \cup emitted, CommittedMinLsn(state))'
    BY <1>1, <1>10 DEF Backed, Covered, Wanted
  <2> QED BY <1>10, <2>2, <2>3, <2>4, <2>5, <2>6 DEF SessionOK
<1>14. FreshOK' /\ IdleOK'
  BY <1>1, <1>6 DEF FreshOK, IdleOK
<1> QED BY <1>10, <1>11, <1>12, <1>13, <1>14 DEF IInv

LEMMA StutterInv == ASSUME IInv, UNCHANGED vars PROVE IInv'
<1>1. UNCHANGED vars
  OBVIOUS
<1> QED BY <1>1 DEF vars, server, progress, session, downstream, IInv, TypeOK, WalOK, SlotOK,
           FileOK, PipeOK, SessionOK, FreshOK, IdleOK, SentPast, Backed, Covered, Wanted

LEMMA NextIInv == IInv /\ [Next]_vars => IInv'
<1> SUFFICES ASSUME IInv, [Next]_vars PROVE IInv'
  OBVIOUS
<1>1. CASE CommitTransaction
  BY <1>1, CommitTransactionInv
<1>2. CASE OtherWal
  BY <1>2, OtherWalInv
<1>3. CASE StartRun
  BY <1>3, StartRunInv
<1>4. CASE Consume
  BY <1>4, ConsumeInv
<1>5. CASE Feedback
  BY <1>5, FeedbackInv
<1>6. CASE SessionEnds \/ StopEarly \/ ConsumeFails
  BY <1>6, SessionEndInv
<1>7. CASE TapCrash \/ PipelineCrash
  BY <1>7, CrashInv
<1>8. CASE TargetCommit
  BY <1>8, TargetCommitInv
<1>9. CASE UNCHANGED vars
  BY <1>9, StutterInv
<1> QED BY <1>1, <1>2, <1>3, <1>4, <1>5, <1>6, <1>7, <1>8, <1>9 DEF Next, SessionEnds

\* The inductive invariant holds of every behaviour of the session.
THEOREM InductiveInvariant == Spec => []IInv
<1>1. Init => IInv
  BY InitIInv
<1>2. IInv /\ [Next]_vars => IInv'
  BY NextIInv
<1> QED BY <1>1, <1>2, PTL DEF Spec

-----------------------------------------------------------------------------
(***************************************************************************)
(* The properties.                                                         *)
(***************************************************************************)

\* The session's variables keep their types.
THEOREM TypeCorrect == Spec => []TypeOK
<1>1. IInv => TypeOK
  BY DEF IInv
<1> QED BY <1>1, InductiveInvariant, PTL

\* No change is lost: what the target has not stored, the next run is sent
\* (start_lsn, the flush control and the STATE messages of logical.py).
THEOREM NothingLost == Spec => []NoLoss
<1>1. IInv => NoLoss
  BY DEF IInv, SlotOK, FileOK, Backed, NoLoss, Larger
<1> QED BY <1>1, InductiveInvariant, PTL

\* No STATE message runs ahead of the records written before it
\* (record_processed, finalize).
THEOREM StatesBacked == Spec => []StateIsBacked
<1>1. IInv => StateIsBacked
  BY DEF IInv, PipeOK, Backed, StateIsBacked
<1> QED BY <1>1, InductiveInvariant, PTL

\* A step that moves the slot moves it to a position the state file has.
LEMMA FlushStep ==
    IInv /\ [Next]_vars => (confirmed' # confirmed => confirmed' <= CommittedMinLsn(file))
<1> SUFFICES ASSUME IInv, [Next]_vars, confirmed' # confirmed
             PROVE  confirmed' <= CommittedMinLsn(file)
  OBVIOUS
<1> USE DEF server, progress, session, downstream
<1>1. CASE Feedback
  BY <1>1, Positions DEF IInv, Feedback, SendFeedback, Larger
<1>2. ASSUME running, ~received_first_message, sent < Len(wal),
             confirmed' = Larger(confirmed, FirstFlush(wal[sent + 1].lsn))
      PROVE  confirmed' <= CommittedMinLsn(file)
  <2>1. sent + 1 \in DOMAIN wal
    BY <1>2, WalType DEF IInv, TypeOK
  <2>2. wal[sent + 1].lsn \in Nat /\ committed_lsn = CommittedMinLsn(file)
    BY <1>2, <2>1, WalType DEF IInv, FreshOK
  <2> QED BY <1>2, <2>2, Positions DEF IInv, FirstFlush, Smaller, Larger
<1>3. CASE Consume
  <2>1. running /\ sent < Len(wal) /\ FlushOnFirstMessage(wal[sent + 1].lsn)
    BY <1>3 DEF Consume
  <2> QED BY <1>2, <2>1 DEF FlushOnFirstMessage, SendFeedback
<1>4. CASE ConsumeFails
  BY <1>2, <1>4 DEF ConsumeFails
<1>5. CASE \/ CommitTransaction \/ OtherWal \/ StartRun \/ StopBeyondEnd \/ StopOnKeepalive
           \/ StopWhenIdle \/ StopEarly \/ TapCrash \/ PipelineCrash \/ TargetCommit
           \/ UNCHANGED vars
  BY <1>5 DEF CommitTransaction, OtherWal, StartRun, StopBeyondEnd, StopOnKeepalive,
              StopWhenIdle, StopEarly, TapCrash, PipelineCrash, TargetCommit, vars
<1> QED BY <1>1, <1>3, <1>4, <1>5 DEF Next

\* The slot is flushed only to what the target has committed (flush control).
THEOREM FlushesOnlyCommitted == Spec => FlushOnlyCommitted
<1>1. IInv /\ [Next]_vars => [confirmed' # confirmed => confirmed' <= CommittedMinLsn(file)]_vars
  BY FlushStep
<1> QED BY <1>1, InductiveInvariant, PTL DEF Spec, FlushOnlyCommitted

-----------------------------------------------------------------------------
(***************************************************************************)
(* Refinement.                                                             *)
(***************************************************************************)

LEMMA FeedInit == Init => Feed!Init
<1> SUFFICES ASSUME Init PROVE Feed!Init
  OBVIOUS
<1>1. IInv /\ DOMAIN wal = {} /\ durable = {}
  BY InitIInv DEF Init
<1>2. CommittedMinLsn(file) \in Nat /\ confirmed \in 0 .. CommittedMinLsn(file)
  BY <1>1, Positions DEF IInv, Init
<1>3. [i \in DOMAIN wal |-> [commit |-> wal[i].commit, wanted |-> Wanted(i)]] = << >>
  BY <1>1
<1> QED BY <1>1, <1>2, <1>3 DEF Feed!Init

LEMMA FeedNext == IInv /\ IInv' /\ [Next]_vars => [Feed!Next]_Feed!vars
<1> SUFFICES ASSUME IInv, IInv', [Next]_vars PROVE [Feed!Next]_Feed!vars
  OBVIOUS
<1> USE DEF server, progress, session, downstream
<1> DEFINE log == [i \in DOMAIN wal |-> [commit |-> wal[i].commit, wanted |-> Wanted(i)]]
           resume == CommittedMinLsn(file)
<1>1. CASE CommitTransaction
  <2>1. UNCHANGED <<durable, file, confirmed>>
    BY <1>1 DEF CommitTransaction
  <2>2. \A i \in DOMAIN log : i \in DOMAIN log' /\ log'[i] = log[i]
    BY <1>1, CommitGrowsWal DEF IInv, Wanted
  <2>3. \A i \in DOMAIN log' \ DOMAIN log : log'[i].commit >= resume /\ log'[i].commit >= confirmed
    <3>1. ASSUME NEW i \in DOMAIN wal' \ DOMAIN wal
          PROVE  wal'[i].commit >= resume /\ wal'[i].commit >= confirmed
      <4>1. wal'[i].commit \in Nat
        <5>1. wal'[i] \in Change
          BY <1>1, CommitGrowsWal, SeqElement DEF IInv
        <5> QED BY <5>1 DEF Change, Lsn
      <4> QED BY <1>1, <4>1, CommitGrowsWal, WalType, Positions
              DEF IInv, SlotOK, FileOK, Backed
    <3> QED BY <3>1
  <2>4. Feed!Grow
    BY <2>1, <2>2, <2>3 DEF Feed!Grow
  <2> QED BY <2>4 DEF Feed!Next
<1>2. ASSUME UNCHANGED <<wal, durable, file, confirmed>> PROVE UNCHANGED Feed!vars
  BY <1>2 DEF Feed!vars, Wanted
<1>3. ASSUME UNCHANGED <<wal, durable, file>>, confirmed' # confirmed, confirmed' >= confirmed
      PROVE  Feed!Trim
  <2>1. confirmed' <= resume
    BY <1>3, FlushStep
  <2>2. confirmed' > confirmed
    BY <1>3, Positions DEF IInv, TypeOK, Lsn
  <2> QED BY <1>3, <2>1, <2>2 DEF Feed!Trim, Wanted
<1>4. ASSUME UNCHANGED <<wal, confirmed>>, durable \subseteq durable' PROVE Feed!Store
  <2>1. durable' \subseteq DOMAIN log
    BY <1>4 DEF IInv, TypeOK
  <2>2. Feed!Covered(log, durable', resume')
    BY <1>4 DEF IInv, FileOK, Backed, Covered, Feed!Covered, Wanted
  <2>3. log' = log
    BY <1>4 DEF Wanted
  <2> QED BY <1>4, <2>1, <2>2, <2>3 DEF Feed!Store
<1>5. CASE Consume \/ Feedback \/ ConsumeFails
  <2>1. UNCHANGED <<wal, durable, file>>
    BY <1>5 DEF Consume, Feedback, ConsumeFails, Finalize
  <2>2. \E q \in Nat : confirmed' = confirmed \/ confirmed' = Larger(confirmed, q)
    <3>1. CASE Feedback
      BY <3>1, Positions DEF IInv, Feedback, SendFeedback
    <3>2. CASE Consume \/ ConsumeFails
      <4>1. sent < Len(wal) /\ sent \in Nat /\ committed_lsn \in Nat
        BY <3>2, WalType DEF IInv, TypeOK, Consume, ConsumeFails
      <4>2. \/ confirmed' = confirmed
            \/ confirmed' = Larger(confirmed, FirstFlush(wal[sent + 1].lsn))
        BY <3>2 DEF Consume, ConsumeFails, FlushOnFirstMessage, SendFeedback
      <4>3. sent + 1 \in DOMAIN wal
        BY <4>1, WalType DEF IInv
      <4>4. FirstFlush(wal[sent + 1].lsn) \in Nat
        BY <4>1, <4>3, WalType DEF IInv, FirstFlush, Smaller
      <4> QED BY <4>2, <4>4
    <3> QED BY <1>5, <3>1, <3>2
  <2>3. confirmed' >= confirmed
    BY <2>2, Positions DEF IInv, Larger
  <2> QED BY <1>2, <1>3, <2>1, <2>3 DEF Feed!Next
<1>6. CASE TargetCommit \/ PipelineCrash
  <2>1. UNCHANGED <<wal, confirmed>> /\ durable \subseteq durable'
    BY <1>6 DEF TargetCommit, PipelineCrash
  <2> QED BY <1>4, <2>1 DEF Feed!Next
<1>7. CASE OtherWal \/ StartRun \/ StopBeyondEnd \/ StopOnKeepalive \/ StopWhenIdle
           \/ StopEarly \/ TapCrash \/ UNCHANGED vars
  <2>1. UNCHANGED <<wal, durable, file, confirmed>>
    BY <1>7 DEF OtherWal, StartRun, StopBeyondEnd, StopOnKeepalive, StopWhenIdle, StopEarly,
                TapCrash, Finalize, vars
  <2> QED BY <1>2, <2>1
<1> QED BY <1>1, <1>5, <1>6, <1>7 DEF Next

\* The session implements the abstract feed of ResumableFeed.
THEOREM SessionImplementsFeed == Spec => ImplementsFeed
<1>1. Init => Feed!Init
  BY FeedInit
<1>2. IInv /\ IInv' /\ [Next]_vars => [Feed!Next]_Feed!vars
  BY FeedNext
<1> QED BY <1>1, <1>2, InductiveInvariant, PTL DEF Spec, ImplementsFeed, Feed!Spec
=============================================================================
