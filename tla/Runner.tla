------------------------------- MODULE Runner -------------------------------
(***************************************************************************)
(* One pass of the ingest command's Runner: a goroutine for every (table,  *)
(* window), at most Concurrency of them at a time, each fetching and       *)
(* writing its window with a bounded number of tries; then the summary.    *)
(* The caller may cancel the pass. What a try reads is left out; a window  *)
(* is "new" in bronze once this pass has replaced its file.                *)
(***************************************************************************)
EXTENDS Integers, FiniteSets

CONSTANTS
    Table,          \* the source's tables
    Jobs,           \* how many (table, window) pairs there are
    TableOf,        \* TableOf[j]: the table of job j
    Concurrency,    \* windows in flight
    Attempts        \* tries per window

Job == 1 .. Jobs

ASSUME JobsAssumption == Jobs \in Nat
ASSUME TableOfAssumption == TableOf \in [Job -> Table]
ASSUME ConcurrencyAssumption == Concurrency \in Nat \ {0}
ASSUME AttemptsAssumption == Attempts \in Nat \ {0}

VARIABLES
    main,           \* where run is: "select", "spawn", "done" or "refused"
    next,           \* the next job to start
    sem,            \* slots taken
    wg,             \* goroutines waited for
    step,           \* step[j]: where the goroutine of job j is
    attempt,        \* attempt[j]: the try it is at
    result,         \* result[j]: "none", "ok", "failed" or "cancelled"
    lines,          \* lines[j]: log lines about the window
    bronze,         \* bronze[j]: "old" until this pass replaces the window's file
    cancelled,      \* "yes" once the context is done
    failures        \* failures[t]: the windows of t the summary names as failed

vars == <<main, next, sem, wg, step, attempt, result, lines, bronze, cancelled, failures>>

TypeOK ==
    /\ main \in {"select", "spawn", "done", "refused"}
    /\ next \in 1 .. Jobs + 1
    /\ sem \in 0 .. Concurrency
    /\ wg \in 0 .. Jobs
    /\ step \in [Job -> {"none", "fetch", "write", "wait", "stored", "released", "gone"}]
    /\ attempt \in [Job -> 0 .. Attempts]
    /\ result \in [Job -> {"none", "ok", "failed", "cancelled"}]
    /\ lines \in [Job -> 0 .. Attempts]
    /\ bronze \in [Job -> {"old", "new"}]
    /\ cancelled \in {"no", "yes"}
    /\ failures \in [Table -> SUBSET Job]

Init ==
    /\ main = "select"
    /\ next = 1 /\ sem = 0 /\ wg = 0
    /\ step = [j \in Job |-> "none"]
    /\ attempt = [j \in Job |-> 0]
    /\ result = [j \in Job |-> "none"]
    /\ lines = [j \in Job |-> 0]
    /\ bronze = [j \in Job |-> "old"]
    /\ cancelled = "no"
    /\ failures = [t \in Table |-> {}]

-----------------------------------------------------------------------------
(* The calling goroutine.                                                  *)

Select ==
    /\ main = "select"
    /\ main' = "spawn"
    /\ UNCHANGED <<next, sem, wg, step, attempt, result, lines, bronze, cancelled, failures>>

(* A table's windows cannot be computed: no window is tried.               *)
Refuse ==
    /\ main = "select"
    /\ main' = "refused"
    /\ UNCHANGED <<next, sem, wg, step, attempt, result, lines, bronze, cancelled, failures>>

(* The next job, once a slot is free; a cancelled pass goes on to it too.  *)
Spawn ==
    /\ main = "spawn" /\ next <= Jobs
    /\ sem < Concurrency
    /\ sem' = sem + 1 /\ wg' = wg + 1
    /\ step' = [step EXCEPT ![next] = "fetch"]
    /\ attempt' = [attempt EXCEPT ![next] = 1]
    /\ next' = next + 1
    /\ UNCHANGED <<main, result, lines, bronze, cancelled, failures>>

(* Mutated form: the goroutines are not waited for.                        *)
ReportUnwaited ==
    /\ main = "spawn" /\ next > Jobs
    /\ failures' = [t \in Table |-> {j \in Job : TableOf[j] = t /\ result[j] \in {"failed", "cancelled"}}]
    /\ main' = "done"
    /\ UNCHANGED <<next, sem, wg, step, attempt, result, lines, bronze, cancelled>>

(* All goroutines have been waited for: their results, by table.           *)
Report ==
    /\ main = "spawn" /\ next > Jobs
    /\ wg = 0
    /\ failures' = [t \in Table |-> {j \in Job : TableOf[j] = t /\ result[j] \in {"failed", "cancelled"}}]
    /\ main' = "done"
    /\ UNCHANGED <<next, sem, wg, step, attempt, result, lines, bronze, cancelled>>

Cancel ==
    /\ cancelled = "no"
    /\ cancelled' = "yes"
    /\ UNCHANGED <<main, next, sem, wg, step, attempt, result, lines, bronze, failures>>

-----------------------------------------------------------------------------
(* The goroutine of job j.                                                 *)

Store(j, r) ==
    /\ result' = [result EXCEPT ![j] = r]
    /\ step' = [step EXCEPT ![j] = "stored"]

Log(j) == lines' = [lines EXCEPT ![j] = @ + 1]

(* Mutated form: every try that fails is logged.                           *)
LogEachFailure(j) ==
    /\ Log(j)
    /\ IF attempt[j] = Attempts
         THEN Store(j, "failed")
         ELSE step' = [step EXCEPT ![j] = "wait"] /\ UNCHANGED result

(* Only the last try is logged; another follows after a wait.              *)
TryFailed(j) ==
    IF attempt[j] = Attempts
      THEN Log(j) /\ Store(j, "failed")
      ELSE step' = [step EXCEPT ![j] = "wait"] /\ UNCHANGED <<result, lines>>

Fetch(j) ==
    /\ step[j] = "fetch"
    /\ \/ step' = [step EXCEPT ![j] = "write"] /\ UNCHANGED <<result, lines>>
       \/ TryFailed(j)
    /\ UNCHANGED <<main, next, sem, wg, attempt, bronze, cancelled, failures>>

(* The rename comes last, after a look at the context: a write that fails  *)
(* has left the window's file alone (ReplaceFile).                         *)
Write(j) ==
    /\ step[j] = "write"
    /\ \/ /\ cancelled = "no"
          /\ bronze' = [bronze EXCEPT ![j] = "new"]
          /\ Log(j) /\ Store(j, "ok")
       \/ TryFailed(j) /\ UNCHANGED bronze
    /\ UNCHANGED <<main, next, sem, wg, attempt, cancelled, failures>>

(* The wait is over, whether or not the context is done as well.           *)
Retry(j) ==
    /\ step[j] = "wait"
    /\ attempt' = [attempt EXCEPT ![j] = @ + 1]
    /\ step' = [step EXCEPT ![j] = "fetch"]
    /\ UNCHANGED <<main, next, sem, wg, result, lines, bronze, cancelled, failures>>

(* The context ends the wait: no line about the window.                    *)
StopWaiting(j) ==
    /\ step[j] = "wait" /\ cancelled = "yes"
    /\ Store(j, "cancelled")
    /\ UNCHANGED <<main, next, sem, wg, attempt, lines, bronze, cancelled, failures>>

(* Mutated form: a window that failed keeps its slot.                      *)
ReleaseIfOk(j) ==
    /\ step[j] = "stored" /\ result[j] = "ok"
    /\ sem' = sem - 1
    /\ step' = [step EXCEPT ![j] = "released"]
    /\ UNCHANGED <<main, next, wg, attempt, result, lines, bronze, cancelled, failures>>

Release(j) ==
    /\ step[j] = "stored"
    /\ sem' = sem - 1
    /\ step' = [step EXCEPT ![j] = "released"]
    /\ UNCHANGED <<main, next, wg, attempt, result, lines, bronze, cancelled, failures>>

(* Mutated form: the slot is given back a second time.                     *)
LeaveAndRelease(j) ==
    /\ step[j] = "released"
    /\ wg' = wg - 1
    /\ sem' = IF sem > 0 THEN sem - 1 ELSE 0
    /\ step' = [step EXCEPT ![j] = "gone"]
    /\ UNCHANGED <<main, next, attempt, result, lines, bronze, cancelled, failures>>

Leave(j) ==
    /\ step[j] = "released"
    /\ wg' = wg - 1
    /\ step' = [step EXCEPT ![j] = "gone"]
    /\ UNCHANGED <<main, next, sem, attempt, result, lines, bronze, cancelled, failures>>

Goroutine(j) ==
    Fetch(j) \/ Write(j) \/ Retry(j) \/ StopWaiting(j) \/ Release(j) \/ Leave(j)

Next ==
    \/ Select \/ Refuse \/ Spawn \/ Report \/ Cancel
    \/ \E j \in Job : Goroutine(j)

Spec == Init /\ [][Next]_vars

(* The Go scheduler runs every goroutine that can run, and every call to   *)
(* the source and the disk returns.                                        *)
Fairness ==
    /\ WF_vars(Select \/ Refuse) /\ WF_vars(Spawn) /\ WF_vars(Report)
    /\ \A j \in Job : WF_vars(Goroutine(j))

FairSpec == Spec /\ Fairness

-----------------------------------------------------------------------------
(* Properties.                                                             *)

InFlight == {j \in Job : step[j] \in {"fetch", "write", "wait", "stored"}}

(* At most Concurrency windows are in flight, the ones waiting for their   *)
(* next try included (Runner.Concurrency: "windows in flight").            *)
WithinConcurrency == Cardinality(InFlight) <= Concurrency

(* When the pass reports, no window is still being worked on; the summary  *)
(* names a window as failed exactly when its file was left as it was; and  *)
(* unless the pass was cancelled, a window is given up only after all its  *)
(* tries, however its neighbours fared.                                    *)
ReportIsTrue ==
    main = "done" =>
        \A j \in Job :
            /\ step[j] = "gone"
            /\ j \in failures[TableOf[j]] <=> bronze[j] = "old"
            /\ bronze[j] = "old" /\ cancelled = "no" => attempt[j] = Attempts

(* A window that was dealt with has been logged once, unless its wait was  *)
(* cancelled: then it has not been logged.                                 *)
LoggedOnceUnlessCancelled ==
    \A j \in Job :
        lines[j] = IF result[j] \in {"ok", "failed"} THEN 1 ELSE 0

(* A pass always ends (runner/doc.go: "one pass over the declared tables   *)
(* that always terminates"): no failure, retry or cancellation keeps a     *)
(* slot or the caller's wait from being given back.                        *)
Terminates == <>(main \in {"done", "refused"})

(* To the readers of bronze a pass promises for each of its windows what a *)
(* MaterialiseWindow run promises for each table: one replacement at most, *)
(* a success only with it, and a summary without failures only when all    *)
(* succeeded. A window counts as dealt with once its slot is given back;   *)
(* what was read is left out, so a new file is as of instant 1.            *)
Promise ==
    INSTANCE WindowRefresh WITH
        Table <- Job,
        bronze <- [j \in Job |-> IF bronze[j] = "new" THEN [at |-> 1, rows |-> 1] ELSE [at |-> 0, rows |-> 0]],
        verdict <- [j \in Job |->
                      IF step[j] \notin {"released", "gone"} THEN "none"
                      ELSE IF result[j] = "ok" THEN "ok" ELSE "failed"],
        run <- IF main # "done" THEN "running"
               ELSE IF \A t \in Table : failures[t] = {} THEN "completed" ELSE "failed"

KeepsPromise == Promise!Spec

-----------------------------------------------------------------------------
(* The inductive invariant behind them.                                    *)

Waited == InFlight \cup {j \in Job : step[j] = "released"}

Counted == sem = Cardinality(InFlight) /\ wg = Cardinality(Waited)

Started ==
    /\ main \in {"select", "refused"} => next = 1
    /\ main = "done" => next = Jobs + 1
    /\ \A j \in Job : step[j] = "none" <=> j >= next

ResultsMatch ==
    \A j \in Job :
        /\ result[j] = "none" <=> step[j] \in {"none", "fetch", "write", "wait"}
        /\ result[j] = "ok" <=> bronze[j] = "new"
        /\ result[j] = "failed" => attempt[j] = Attempts
        /\ result[j] = "cancelled" => cancelled = "yes"
        /\ step[j] = "wait" => attempt[j] < Attempts

IInv ==
    /\ TypeOK
    /\ Counted
    /\ Started
    /\ ResultsMatch
    /\ LoggedOnceUnlessCancelled
    /\ ReportIsTrue
=============================================================================
