--------------------------- MODULE WindowRefresh ---------------------------
(***************************************************************************)
(* What one MaterialiseWindow run promises the readers of bronze, with     *)
(* nothing said of attempts, spool files or timeouts: the file of a table  *)
(* is replaced at most once, by the rows of one read of the source and the *)
(* instant that read was stamped with, and the run reports success only    *)
(* when every table's file has been replaced.                              *)
(* A pass of the Runner promises the same for each of its windows.         *)
(***************************************************************************)
EXTENDS Naturals

CONSTANT Table

VARIABLES
    bronze,     \* bronze[t]: the file of table t for the window
    verdict,    \* verdict[t]: what materialiseTable returned for t
    run         \* the workflow's own outcome

vars == <<bronze, verdict, run>>

(* A file is an extraction instant and the version of the source its rows  *)
(* show. Instants and versions are counted from the start of the run; the  *)
(* file found when the run starts (or its absence) is instant 0.           *)
Inherited == [at |-> 0, rows |-> 0]

Refreshed(t) == bronze[t] # Inherited

Init ==
    /\ bronze = [t \in Table |-> Inherited]
    /\ verdict = [t \in Table |-> "none"]
    /\ run = "running"

(* The rows are read after the instant they are stamped with, so the file  *)
(* shows every change the source had accepted by that instant.             *)
Replace(t) ==
    /\ ~Refreshed(t)
    /\ verdict[t] # "ok"
    /\ bronze'[t] \in [at : Nat \ {0}, rows : Nat]
    /\ bronze'[t].at <= bronze'[t].rows
    /\ bronze' = [bronze EXCEPT ![t] = bronze'[t]]
    /\ UNCHANGED <<verdict, run>>

Succeed(t) ==
    /\ verdict[t] = "none"
    /\ Refreshed(t)
    /\ verdict' = [verdict EXCEPT ![t] = "ok"]
    /\ UNCHANGED <<bronze, run>>

(* A table may fail with its file replaced: the answer that said so can be *)
(* lost on every attempt, or only the removal of the spool may fail.       *)
Fail(t) ==
    /\ verdict[t] = "none"
    /\ verdict' = [verdict EXCEPT ![t] = "failed"]
    /\ UNCHANGED <<bronze, run>>

Finish ==
    /\ run = "running"
    /\ \A t \in Table : verdict[t] # "none"
    /\ run' = IF \A t \in Table : verdict[t] = "ok" THEN "completed" ELSE "failed"
    /\ UNCHANGED <<bronze, verdict>>

Next == Finish \/ \E t \in Table : Replace(t) \/ Succeed(t) \/ Fail(t)

Spec == Init /\ [][Next]_vars
=============================================================================
