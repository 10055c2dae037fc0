--------------------------- MODULE VersionedCopy ---------------------------
(***************************************************************************)
(* What a full-table copy promises, with no query, message or watermark in *)
(* it.  A source has rows that change; a target has rows, each under the   *)
(* version it came with or under none.  A copy has a version, the rows it  *)
(* is due to bring, and the rows among them that a resumption may skip.    *)
(* It may be interrupted at any time and is then resumed, and when all     *)
(* that is due has come it is sealed: the target drops other versions.     *)
(*                                                                         *)
(* A row is its key and the id of the transaction that wrote it; 0 is no   *)
(* row and no version.  FullTableCopy implements this.                     *)
(***************************************************************************)
EXTENDS Integers

VARIABLES
    source,  \* the id of each row that is there
    target,  \* each row as the target has it: its id and its version
    current, \* the version of the copy
    due,     \* the rows it answers for
    settled  \* those of due that a resumed copy does not bring again

vars == <<source, target, current, due, settled>>

None == 0

Present == {[row |-> r, xid |-> source[r]] : r \in {q \in DOMAIN source : source[q] # None}}

\* The target has the row as the copy read it.
Has(c) == target[c.row].xid = c.xid /\ target[c.row].version \in {current, None}

Complete == \A c \in due : Has(c)

Init ==
    /\ source = [r \in DOMAIN source |-> None]
    /\ target = [r \in DOMAIN source |-> [xid |-> None, version |-> None]]
    /\ current = None
    /\ due = {}
    /\ settled = {}

\* Rows are written: what is new is nothing the target has.
Change ==
    /\ DOMAIN source' = DOMAIN source
    /\ \A r \in DOMAIN source : source'[r] # source[r] => source'[r] # target[r].xid
    /\ UNCHANGED <<target, current, due, settled>>

\* A copy starts afresh, and only if none with something settled is left.
Begin ==
    /\ settled = {}
    /\ current' > current
    /\ due' = Present
    /\ settled' = {}
    /\ UNCHANGED <<source, target>>

\* An interrupted copy goes on under its version.  It no longer answers for
\* rows that have changed.
Resume ==
    /\ due' = due \cap Present
    /\ settled' = settled \cap due'
    /\ UNCHANGED <<source, target, current>>

\* Rows come, under the version or none.  What was due and there stays there.
Store ==
    /\ DOMAIN target' = DOMAIN target
    /\ \A r \in DOMAIN target : target'[r] # target[r] =>
           target'[r].xid # None /\ target'[r].version \in {current, None}
    /\ \A c \in due : Has(c) => Has(c)'
    /\ UNCHANGED <<source, current, due, settled>>

\* The point to resume from moves: past rows that are there, and back only
\* when nothing is left to resume.
Settle ==
    /\ settled' \subseteq {c \in due : Has(c)}
    /\ settled \subseteq settled' \/ Complete
    /\ UNCHANGED <<source, target, current, due>>

\* The copy is complete.  What came under another version goes, but nothing
\* that the source still has as the target knows it.
Seal ==
    /\ Complete
    /\ target' = [r \in DOMAIN target |->
                     IF target[r].version \in {current, None} THEN target[r]
                     ELSE [xid |-> None, version |-> None]]
    /\ \A r \in DOMAIN target : source[r] # None /\ source[r] = target[r].xid => target'[r] = target[r]
    /\ UNCHANGED <<source, current, due, settled>>

Next == Change \/ Begin \/ Resume \/ Store \/ Settle \/ Seal

Spec == Init /\ [][Next]_vars
=============================================================================
