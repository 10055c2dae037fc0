----------------------------- MODULE KeyedFeed -----------------------------
(***************************************************************************)
(* What replication by a key promises, with no query, batch or message in  *)
(* it.  A source has rows, each with a key and the write that left it so;  *)
(* a target has writes of these rows; and a bookmark says up to which key  *)
(* the target has them all.  The feed looks at the source now and then,    *)
(* and does not answer for rows that appear below where it has looked.  It *)
(* may see a key that leads its bookmark astray, and promises only the     *)
(* rows then.                                                              *)
(*                                                                         *)
(* 0 is no key, no write and no bookmark.  IncrementalSync implements this.*)
(***************************************************************************)
EXTENDS Integers

CONSTANT
    fallbacks  \* bookmarks that it may be put back to

VARIABLES
    source,   \* each row's key and write
    target,   \* each row's write, as the target has it
    reach,    \* the highest key looked at
    missed,   \* rows that appeared below the reach of their time
    bookmark,
    astray    \* a key was looked at that leads the bookmark astray

vars == <<source, target, reach, missed, bookmark, astray>>

None == 0

Init ==
    /\ source = [r \in DOMAIN source |-> [key |-> None, write |-> None]]
    /\ target = [r \in DOMAIN source |-> None]
    /\ reach = None
    /\ missed = {}
    /\ bookmark = None
    /\ astray = FALSE

\* Rows are written.
Change ==
    /\ DOMAIN source' = DOMAIN source
    /\ \A r \in DOMAIN source : source'[r] # source[r] => source'[r].write > source[r].write
    /\ missed' = {r \in DOMAIN source :
                     IF source'[r] = source[r] THEN r \in missed
                     ELSE source'[r].key # None /\ source'[r].key < reach}
    /\ UNCHANGED <<target, reach, bookmark, astray>>

Look ==
    /\ reach' >= reach
    /\ astray => astray'
    /\ UNCHANGED <<source, target, missed, bookmark>>

\* Rows come, the latest write or an older one, and never one older than what
\* the target has.
Store ==
    /\ DOMAIN target' = DOMAIN target
    /\ \A r \in DOMAIN target : target[r] <= target'[r] /\ target'[r] <= source[r].write
    /\ UNCHANGED <<source, reach, missed, bookmark, astray>>

\* The bookmark moves, past rows that the target has as the source has them.
Advance ==
    /\ ~astray
    /\ bookmark' >= bookmark \/ bookmark' \in fallbacks
    /\ \A r \in DOMAIN source \ missed :
           source[r].key # None /\ source[r].key < bookmark' => target[r] = source[r].write
    /\ UNCHANGED <<source, target, reach, missed, astray>>

Stray ==
    /\ astray
    /\ UNCHANGED <<source, target, reach, missed, astray>>

Next == Change \/ Look \/ Store \/ Advance \/ Stray

Spec == Init /\ [][Next]_vars
=============================================================================
