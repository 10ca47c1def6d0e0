----------------------------- MODULE AtomicFile -----------------------------
(***************************************************************************)
(* What Writer.Write promises of one bronze path: at any moment the path   *)
(* names one whole version of the file, a version takes the place of       *)
(* another in one step and at most once, and only a crash of the machine   *)
(* brings an earlier version back.                                         *)
(***************************************************************************)
CONSTANTS
    Version,        \* the versions that may be written
    Inherited       \* the file, or its absence, before any of them

VARIABLES
    current,        \* the version a reader of the path finds
    published       \* the versions that have been put in place

vars == <<current, published>>

Init == current = Inherited /\ published = {Inherited}

Publish(v) ==
    /\ v \notin published
    /\ current' = v
    /\ published' = published \cup {v}

Crash ==
    /\ current' \in published
    /\ UNCHANGED published

Next == Crash \/ \E v \in Version : Publish(v)

Spec == Init /\ [][Next]_vars
=============================================================================
