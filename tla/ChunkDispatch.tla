---------------------------- MODULE ChunkDispatch ----------------------------
(***************************************************************************)
(* What a dispatcher of work items promises: an item can only be done      *)
(* after it was given out, nothing done is undone, and the whole is        *)
(* reported complete only when every item is done.                         *)
(***************************************************************************)
CONSTANT Items

VARIABLES
    given,      \* items given out at least once
    done,       \* items that ended in success
    reported    \* completion has been reported

vars == <<given, done, reported>>

Init ==
    /\ given = {}
    /\ done = {}
    /\ reported = FALSE

Give(c) ==
    /\ c \notin given
    /\ given' = given \union {c}
    /\ UNCHANGED <<done, reported>>

Finish(c) ==
    /\ c \in given \ done
    /\ done' = done \union {c}
    /\ UNCHANGED <<given, reported>>

Report ==
    /\ done = Items
    /\ ~reported
    /\ reported' = TRUE
    /\ UNCHANGED <<given, done>>

Next ==
    \/ \E c \in Items : Give(c) \/ Finish(c)
    \/ Report

Spec == Init /\ [][Next]_vars
=============================================================================
