----------------------------- MODULE DurableLog -----------------------------
(***************************************************************************)
(* What the append-only file promises, with no files, queues or threads:   *)
(* of a history of commands numbered 1, 2, 3... some are certain to        *)
(* survive a power loss.  A command that is certain stays so, whatever the *)
(* threads do and through every crash; only a shutdown that meets a        *)
(* compaction of the history may take an initial part of it away.          *)
(***************************************************************************)
EXTENDS Naturals

CONSTANTS
    MaxCommands    \* bound on the history

VARIABLES
    synchronous,   \* a Boolean: a command is acknowledged only when it is certain
    closing,       \* a Boolean: the log is being shut down
    compacting,    \* a Boolean: the history is being compacted
    issued,        \* commands handed to the log
    acked,         \* the last one acknowledged
    certain        \* the commands that survive whatever happens to the power

logVars == <<synchronous, closing, compacting, issued, acked, certain>>

LogInit ==
    /\ synchronous \in BOOLEAN
    /\ closing = FALSE /\ compacting = FALSE
    /\ issued = 0 /\ acked = 0 /\ certain = {}

(* More commands become certain, and none stops being so. *)
Grows == certain \subseteq certain' /\ certain' \subseteq 1..issued'

Issue ==
    /\ ~closing
    /\ issued < MaxCommands
    /\ acked = issued
    /\ issued' = issued + 1
    /\ UNCHANGED <<synchronous, closing, compacting>>

(* A command is accepted, or fails without being acknowledged. *)
Accept ==
    /\ Issue
    /\ acked' = issued'
    /\ IF synchronous THEN Grows /\ issued' \in certain' ELSE UNCHANGED certain

Reject == Issue /\ UNCHANGED <<acked, certain>>

Persist == Grows /\ UNCHANGED <<synchronous, closing, compacting, issued, acked>>

BeginCompaction ==
    /\ ~closing /\ ~compacting
    /\ compacting' = TRUE
    /\ UNCHANGED <<synchronous, closing, issued, acked, certain>>

EndCompaction ==
    /\ compacting
    /\ compacting' = FALSE
    /\ Grows
    /\ UNCHANGED <<synchronous, closing, issued, acked>>

Close ==
    /\ ~closing
    /\ closing' = TRUE
    /\ UNCHANGED <<synchronous, compacting, issued, acked, certain>>

(* The shutdown puts a compacted history in the place of the log before    *)
(* all of the old one is in it.                                            *)
CutOff ==
    /\ closing /\ compacting
    /\ \E n \in 1..issued : certain' = certain \ (1..n)
    /\ UNCHANGED <<synchronous, closing, compacting, issued, acked>>

Recover ==
    /\ synchronous' \in BOOLEAN
    /\ closing' = FALSE /\ compacting' = FALSE
    /\ issued' \in 0..issued
    /\ acked' = issued'
    /\ Grows

LogNext ==
    \/ Accept \/ Reject \/ Persist \/ BeginCompaction \/ EndCompaction
    \/ Close \/ CutOff \/ Recover

LogSpec == LogInit /\ [][LogNext]_logVars
=============================================================================
