--------------------------- MODULE ResumableFeed ---------------------------
(***************************************************************************)
(* What the log-based half of the tap promises, with no session, slot or   *)
(* message in it.  A source appends changes to a log; a target stores      *)
(* changes durably and remembers, with them, a position to resume from;    *)
(* the source forgets the log below a trim point.  A consumer that has     *)
(* lost everything else restarts at the later of the two positions and is  *)
(* given only the changes whose transaction commits there or later.        *)
(*                                                                         *)
(* This is SPEC.md's invariant "never lose data the target hasn't stored"  *)
(* as a specification; LogicalSession implements it.                       *)
(***************************************************************************)
EXTENDS Integers

VARIABLES
    log,      \* the changes, in commit order: a sequence of [commit, wanted]
    durable,  \* the indexes of log the target has stored
    resume,   \* the position stored with them
    trimmed   \* the source keeps nothing that committed below this position

vars == <<log, durable, resume, trimmed>>

(***************************************************************************)
(* Every wanted change that committed below pos is among those of stored.  *)
(***************************************************************************)
Covered(changes, stored, pos) ==
    \A i \in DOMAIN changes :
        changes[i].wanted /\ changes[i].commit < pos => i \in stored

Init ==
    /\ log = << >>
    /\ durable = {}
    /\ resume \in Nat
    /\ trimmed \in 0 .. resume

\* The source commits: what is in the log stays, what is new commits above
\* every position handed out so far.
Grow ==
    /\ DOMAIN log \subseteq DOMAIN log'
    /\ \A i \in DOMAIN log : log'[i] = log[i]
    /\ \A i \in DOMAIN log' \ DOMAIN log :
           log'[i].commit >= resume /\ log'[i].commit >= trimmed
    /\ UNCHANGED <<durable, resume, trimmed>>

\* The target stores more, and with it a position below which it then has
\* everything.  The position may go back: the price is that changes repeat.
Store ==
    /\ durable \subseteq durable'
    /\ durable' \subseteq DOMAIN log
    /\ Covered(log, durable', resume')
    /\ UNCHANGED <<log, trimmed>>

\* The source is told to forget, never past the target's position.
Trim ==
    /\ trimmed' > trimmed
    /\ trimmed' <= resume
    /\ UNCHANGED <<log, durable, resume>>

Next == Grow \/ Store \/ Trim

Spec == Init /\ [][Next]_vars
=============================================================================
