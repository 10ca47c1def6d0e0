------------------------- MODULE MaterialiseWindow -------------------------
(***************************************************************************)
(* One run of the MaterialiseWindow workflow: for every table of a window  *)
(* a coroutine runs FetchWindow, WriteWindow and DeleteSpool in turn, and  *)
(* the rows travel between the first two through a spool file. Temporal    *)
(* gives each activity at most MaxAttempts attempts. An attempt runs on a  *)
(* worker: it may fail, its worker may die, its answer may be lost, and    *)
(* the server may time it out while it is still running, after which it    *)
(* goes on unseen and its answer is refused.                               *)
(***************************************************************************)
EXTENDS Naturals

CONSTANTS
    Table,          \* the tables of the window's grain
    MaxAttempts     \* retryPolicy.MaximumAttempts

ASSUME MaxAttemptsAssumption == MaxAttempts \in Nat \ {0}

VARIABLES
    \* The workflow's view, kept by the server.
    stage,      \* stage[t]: the activity materialiseTable waits for
    attempt,    \* attempt[t]: attempts of that activity started so far
    task,       \* task[t]: the last of them is "started", or a next one "scheduled"
    ref,        \* ref[t]: FetchedAt of the SpoolRef in hand, 0 before there is one
    writeErr,   \* writeErr[t]: what WriteWindow failed with for good, or "nil"
    verdict,    \* verdict[t]: what materialiseTable returned
    run,        \* the outcome of the run
    \* The attempts on the workers, timed-out ones included.
    fetch, write, remove,
    \* The files.
    spool,      \* spool[t]: the spool file all attempts of t share
    bronze,     \* bronze[t]: the window's bronze file
    clock       \* the last instant read from the extraction clock

serverVars == <<stage, attempt, task, ref, writeErr, verdict, run>>
workerVars == <<fetch, write, remove>>
vars == <<serverVars, workerVars, spool, bronze, clock>>

Attempt == 1 .. MaxAttempts
Instant == Nat

(* A file holds the rows of one read and the instant stamped on them. The  *)
(* rows are named by the newest instant at the time of the read, as if the *)
(* source changed between any two instants: two reads agree only when      *)
(* nothing lies between them. Nothing ([at |-> 0, rows |-> 0]) is a        *)
(* spool file that is not there, and the bronze file of earlier runs.      *)
File == [at : Instant, rows : Instant]
Nothing == [at |-> 0, rows |-> 0]

FetchAttempt == [pc : {"idle", "querying", "read", "spooled", "gone"},
                 at : Instant, rows : Instant]
WriteAttempt == [pc : {"idle", "reading", "writing", "written", "gone"},
                 rows : Instant]
RemoveAttempt == {"idle", "removing", "removed", "gone"}

TypeOK ==
    /\ stage \in [Table -> {"fetch", "write", "delete", "done"}]
    /\ attempt \in [Table -> 0 .. MaxAttempts]
    /\ task \in [Table -> {"scheduled", "started"}]
    /\ ref \in [Table -> Instant]
    /\ writeErr \in [Table -> {"nil", "error"}]
    /\ verdict \in [Table -> {"none", "ok", "failed"}]
    /\ run \in {"running", "completed", "failed"}
    /\ fetch \in [Table -> [Attempt -> FetchAttempt]]
    /\ write \in [Table -> [Attempt -> WriteAttempt]]
    /\ remove \in [Table -> [Attempt -> RemoveAttempt]]
    /\ spool \in [Table -> File]
    /\ bronze \in [Table -> File]
    /\ clock \in Instant

Init ==
    /\ stage = [t \in Table |-> "fetch"]
    /\ attempt = [t \in Table |-> 0]
    /\ task = [t \in Table |-> "scheduled"]
    /\ ref = [t \in Table |-> 0]
    /\ writeErr = [t \in Table |-> "nil"]
    /\ verdict = [t \in Table |-> "none"]
    /\ run = "running"
    /\ fetch = [t \in Table |-> [k \in Attempt |-> [pc |-> "idle", at |-> 0, rows |-> 0]]]
    /\ write = [t \in Table |-> [k \in Attempt |-> [pc |-> "idle", rows |-> 0]]]
    /\ remove = [t \in Table |-> [k \in Attempt |-> "idle"]]
    /\ spool = [t \in Table |-> Nothing]
    /\ bronze = [t \in Table |-> Nothing]
    /\ clock = 0

-----------------------------------------------------------------------------
(* materialiseTable: what it does with the outcome of an activity.         *)

MoveTo(t, s) ==
    /\ stage' = [stage EXCEPT ![t] = s]
    /\ attempt' = [attempt EXCEPT ![t] = 0]
    /\ task' = [task EXCEPT ![t] = "scheduled"]

Return(t, v) ==
    /\ MoveTo(t, "done")
    /\ verdict' = [verdict EXCEPT ![t] = v]

(* Mutated form: DeleteSpool's error is dropped.                           *)
DeleteErrorIgnored(t) ==
    /\ \/ /\ stage[t] = "fetch"
          /\ Return(t, "failed")
          /\ UNCHANGED writeErr
       \/ /\ stage[t] = "write"
          /\ MoveTo(t, "delete")
          /\ writeErr' = [writeErr EXCEPT ![t] = "error"]
          /\ UNCHANGED verdict
       \/ /\ stage[t] = "delete"
          /\ Return(t, IF writeErr[t] = "nil" THEN "ok" ELSE "failed")
          /\ UNCHANGED writeErr
    /\ UNCHANGED <<ref, run>>

(* FetchWindow's error ends the table; WriteWindow's is kept until         *)
(* DeleteSpool has run, which it does either way.                          *)
ActivityFails(t) ==
    /\ \/ /\ stage[t] = "fetch"
          /\ Return(t, "failed")
          /\ UNCHANGED writeErr
       \/ /\ stage[t] = "write"
          /\ MoveTo(t, "delete")
          /\ writeErr' = [writeErr EXCEPT ![t] = "error"]
          /\ UNCHANGED verdict
       \/ /\ stage[t] = "delete"
          /\ Return(t, "failed")
          /\ UNCHANGED writeErr
    /\ UNCHANGED <<ref, run>>

FetchCompletes(t, at) ==
    /\ MoveTo(t, "write")
    /\ ref' = [ref EXCEPT ![t] = at]
    /\ UNCHANGED <<writeErr, verdict, run>>

WriteCompletes(t) ==
    /\ MoveTo(t, "delete")
    /\ UNCHANGED <<ref, writeErr, verdict, run>>

(* Mutated form: WriteWindow's error is dropped.                           *)
WriteErrorIgnored(t) ==
    /\ Return(t, "ok")
    /\ UNCHANGED <<ref, writeErr, run>>

DeleteCompletes(t) ==
    /\ Return(t, IF writeErr[t] = "nil" THEN "ok" ELSE "failed")
    /\ UNCHANGED <<ref, writeErr, run>>

-----------------------------------------------------------------------------
(* The server: attempts, retries, timeouts.                                *)

(* Attempt k is the one the server waits for: only its answer counts.      *)
Awaited(t, s, k) == stage[t] = s /\ task[t] = "started" /\ attempt[t] = k

NextAttempt(t, s) ==
    /\ stage[t] = s
    /\ task[t] = "scheduled"
    /\ attempt' = [attempt EXCEPT ![t] = @ + 1]
    /\ task' = [task EXCEPT ![t] = "started"]
    /\ UNCHANGED <<stage, ref, writeErr, verdict, run>>

(* Mutated form: no attempt is ever the last.                              *)
RetryForever(t) ==
    /\ task' = [task EXCEPT ![t] = "scheduled"]
    /\ UNCHANGED <<stage, attempt, ref, writeErr, verdict, run>>

(* Mutated form: the last attempt's failure goes unnoticed.                *)
RetryOnly(t) == attempt[t] < MaxAttempts /\ RetryForever(t)

(* A retryable failure of the awaited attempt: another attempt while the   *)
(* retry policy allows one, else the activity fails.                       *)
RetryOrFail(t) ==
    \/ /\ attempt[t] < MaxAttempts
       /\ task' = [task EXCEPT ![t] = "scheduled"]
       /\ UNCHANGED <<stage, attempt, ref, writeErr, verdict, run>>
    \/ /\ attempt[t] = MaxAttempts
       /\ ActivityFails(t)

(* Attempt k of t goes on to pc with these rows in hand.                   *)
FetchMoves(t, k, pc, rows) ==
    fetch' = [fetch EXCEPT ![t][k] = [pc |-> pc, at |-> fetch[t][k].at, rows |-> rows]]

WriteMoves(t, k, pc, rows) ==
    write' = [write EXCEPT ![t][k] = [pc |-> pc, rows |-> rows]]

RemoveMoves(t, k, pc) == remove' = [remove EXCEPT ![t][k] = pc]

Answer(t, s, k, Outcome) ==
    IF Awaited(t, s, k) THEN Outcome ELSE UNCHANGED serverVars

(* StartToClose or heartbeat timeout. The code sends no heartbeat while    *)
(* the source is queried, so a timeout need not mean a dead worker.        *)
Timeout(t) ==
    /\ task[t] = "started"
    /\ RetryOrFail(t)
    /\ UNCHANGED <<workerVars, spool, bronze, clock>>

-----------------------------------------------------------------------------
(* FetchWindow.                                                            *)

(* FetchedAt is stamped as the attempt starts. Attempts of one activity    *)
(* are seconds apart (backoff), FetchedAt counts microseconds: two         *)
(* attempts never share an instant.                                        *)
FetchStart(t) ==
    /\ NextAttempt(t, "fetch")
    /\ clock' = clock + 1
    /\ fetch' = [fetch EXCEPT ![t][attempt[t] + 1] =
                   [pc |-> "querying", at |-> clock + 1, rows |-> 0]]
    /\ UNCHANGED <<write, remove, spool, bronze>>

FetchRead(t, k) ==
    /\ fetch[t][k].pc = "querying"
    /\ FetchMoves(t, k, "read", clock)
    /\ UNCHANGED <<serverVars, write, remove, spool, bronze, clock>>

(* writeSpool renames a complete file into place and never asks whether    *)
(* the attempt is still wanted.                                            *)
FetchSpool(t, k) ==
    /\ fetch[t][k].pc = "read"
    /\ FetchMoves(t, k, "spooled", fetch[t][k].rows)
    /\ spool' = [spool EXCEPT ![t] = [at |-> fetch[t][k].at, rows |-> fetch[t][k].rows]]
    /\ UNCHANGED <<serverVars, write, remove, bronze, clock>>

FetchAnswer(t, k) ==
    /\ fetch[t][k].pc = "spooled"
    /\ FetchMoves(t, k, "gone", fetch[t][k].rows)
    /\ Answer(t, "fetch", k, FetchCompletes(t, fetch[t][k].at))
    /\ UNCHANGED <<write, remove, spool, bronze, clock>>

(* The source cannot be read or the spool cannot be written; the temp file *)
(* is removed and the spool file is what it was.                           *)
FetchError(t, k) ==
    /\ fetch[t][k].pc \in {"querying", "read"}
    /\ FetchMoves(t, k, "gone", fetch[t][k].rows)
    /\ Answer(t, "fetch", k, RetryOrFail(t))
    /\ UNCHANGED <<write, remove, spool, bronze, clock>>

(* The worker dies, or the answer is lost.                                 *)
FetchLost(t, k) ==
    /\ fetch[t][k].pc \in {"querying", "read", "spooled"}
    /\ FetchMoves(t, k, "gone", fetch[t][k].rows)
    /\ UNCHANGED <<serverVars, write, remove, spool, bronze, clock>>

-----------------------------------------------------------------------------
(* WriteWindow.                                                            *)

(* Mutated form: any spool will do.                                        *)
MatchesAnything(file, at) == TRUE

(* The ref and the spool agree on the instant. (Source, table and window   *)
(* are the same for all spools of t, and an instant has one row count.)    *)
Matches(file, at) == file.at = at

WriteStart(t) ==
    /\ NextAttempt(t, "write")
    /\ WriteMoves(t, attempt[t] + 1, "reading", 0)
    /\ UNCHANGED <<fetch, remove, spool, bronze, clock>>

WriteRead(t, k) ==
    /\ write[t][k].pc = "reading"
    /\ spool[t] # Nothing
    /\ Matches(spool[t], ref[t])
    /\ WriteMoves(t, k, "writing", spool[t].rows)
    /\ UNCHANGED <<serverVars, fetch, remove, spool, bronze, clock>>

(* A spool that does not match its ref is BadInput: no retry.              *)
WriteMismatch(t, k) ==
    /\ write[t][k].pc = "reading"
    /\ spool[t] # Nothing
    /\ ~Matches(spool[t], ref[t])
    /\ WriteMoves(t, k, "gone", write[t][k].rows)
    /\ Answer(t, "write", k, ActivityFails(t))
    /\ UNCHANGED <<fetch, remove, spool, bronze, clock>>

(* Mutated form: WriteWindow removes the spool it has redeemed.            *)
PutAndRemoveSpool(t, k) ==
    /\ write[t][k].pc = "writing"
    /\ WriteMoves(t, k, "written", write[t][k].rows)
    /\ bronze' = [bronze EXCEPT ![t] = [at |-> ref[t], rows |-> write[t][k].rows]]
    /\ spool' = [spool EXCEPT ![t] = Nothing]
    /\ UNCHANGED <<serverVars, fetch, remove, clock>>

(* Writer.Write: the rename that replaces the bronze file.                 *)
WritePut(t, k) ==
    /\ write[t][k].pc = "writing"
    /\ WriteMoves(t, k, "written", write[t][k].rows)
    /\ bronze' = [bronze EXCEPT ![t] = [at |-> ref[t], rows |-> write[t][k].rows]]
    /\ UNCHANGED <<serverVars, fetch, remove, spool, clock>>

WriteAnswer(t, k) ==
    /\ write[t][k].pc = "written"
    /\ WriteMoves(t, k, "gone", write[t][k].rows)
    /\ Answer(t, "write", k, WriteCompletes(t))
    /\ UNCHANGED <<fetch, remove, spool, bronze, clock>>

(* No spool file, an unreadable one, or a write that fails or is cancelled *)
(* before the rename: the bronze file is untouched.                        *)
WriteError(t, k) ==
    /\ write[t][k].pc \in {"reading", "writing"}
    /\ WriteMoves(t, k, "gone", write[t][k].rows)
    /\ Answer(t, "write", k, RetryOrFail(t))
    /\ UNCHANGED <<fetch, remove, spool, bronze, clock>>

WriteLost(t, k) ==
    /\ write[t][k].pc \in {"reading", "writing", "written"}
    /\ WriteMoves(t, k, "gone", write[t][k].rows)
    /\ UNCHANGED <<serverVars, fetch, remove, spool, bronze, clock>>

-----------------------------------------------------------------------------
(* DeleteSpool.                                                            *)

DeleteStart(t) ==
    /\ NextAttempt(t, "delete")
    /\ RemoveMoves(t, attempt[t] + 1, "removing")
    /\ UNCHANGED <<fetch, write, spool, bronze, clock>>

(* A file that is already gone counts as removed.                          *)
DeleteRemove(t, k) ==
    /\ remove[t][k] = "removing"
    /\ RemoveMoves(t, k, "removed")
    /\ spool' = [spool EXCEPT ![t] = Nothing]
    /\ UNCHANGED <<serverVars, fetch, write, bronze, clock>>

DeleteAnswer(t, k) ==
    /\ remove[t][k] = "removed"
    /\ RemoveMoves(t, k, "gone")
    /\ Answer(t, "delete", k, DeleteCompletes(t))
    /\ UNCHANGED <<fetch, write, spool, bronze, clock>>

DeleteError(t, k) ==
    /\ remove[t][k] = "removing"
    /\ RemoveMoves(t, k, "gone")
    /\ Answer(t, "delete", k, RetryOrFail(t))
    /\ UNCHANGED <<fetch, write, spool, bronze, clock>>

DeleteLost(t, k) ==
    /\ remove[t][k] \in {"removing", "removed"}
    /\ RemoveMoves(t, k, "gone")
    /\ UNCHANGED <<serverVars, fetch, write, spool, bronze, clock>>

-----------------------------------------------------------------------------
(* MaterialiseWindow itself: wg.Wait, then the error that names the failed *)
(* tables, or none.                                                        *)
Finish ==
    /\ run = "running"
    /\ \A t \in Table : stage[t] = "done"
    /\ run' = IF \A t \in Table : verdict[t] = "ok" THEN "completed" ELSE "failed"
    /\ UNCHANGED <<stage, attempt, task, ref, writeErr, verdict,
                   workerVars, spool, bronze, clock>>

Start(t) == FetchStart(t) \/ WriteStart(t) \/ DeleteStart(t)

FetchStep(t, k) ==
    \/ FetchRead(t, k) \/ FetchSpool(t, k) \/ FetchAnswer(t, k)
    \/ FetchError(t, k) \/ FetchLost(t, k)

WriteStep(t, k) ==
    \/ WriteRead(t, k) \/ WriteMismatch(t, k) \/ WritePut(t, k)
    \/ WriteAnswer(t, k) \/ WriteError(t, k) \/ WriteLost(t, k)

DeleteStep(t, k) ==
    \/ DeleteRemove(t, k) \/ DeleteAnswer(t, k)
    \/ DeleteError(t, k) \/ DeleteLost(t, k)

Next ==
    \/ Finish
    \/ \E t \in Table : Start(t) \/ Timeout(t)
    \/ \E t \in Table, k \in Attempt :
         FetchStep(t, k) \/ WriteStep(t, k) \/ DeleteStep(t, k)

Spec == Init /\ [][Next]_vars

(* The server hands out attempts and fires timers as long as some worker   *)
(* polls its queue, and a worker goroutine that is alive keeps running.    *)
Fairness ==
    /\ WF_vars(Finish)
    /\ \A t \in Table : WF_vars(Start(t)) /\ WF_vars(Timeout(t))
    /\ \A t \in Table, k \in Attempt :
         WF_vars(FetchStep(t, k)) /\ WF_vars(WriteStep(t, k)) /\ WF_vars(DeleteStep(t, k))

FairSpec == Spec /\ Fairness

-----------------------------------------------------------------------------
(* Properties.                                                             *)

(* The bronze file is one read of the source, whole: its rows and its      *)
(* _extracted_at are those of a single FetchWindow attempt, whichever      *)
(* attempts wrote and rewrote the spool in between (spoolFile.matches).    *)
BronzeIsOneFetch ==
    \A t \in Table : bronze[t] # Nothing =>
        \E k \in Attempt :
            /\ fetch[t][k].at = bronze[t].at
            /\ fetch[t][k].rows = bronze[t].rows
            /\ fetch[t][k].at <= fetch[t][k].rows

(* Once a run has replaced a bronze file, nothing it still does changes    *)
(* that file: retries of WriteWindow, and attempts that were given up,     *)
(* write what is already there (activity_ingest.go: "The same ref always   *)
(* yields byte-identical bronze").                                         *)
BronzeWrittenOnce ==
    [][\A t \in Table : bronze[t] # Nothing => bronze'[t] = bronze[t]]_vars

(* When DeleteSpool has removed the spool, and when a table has succeeded, *)
(* the spool the ref names is gone and no attempt puts it back. (A spool   *)
(* of another FetchWindow attempt, one given up on, may still appear.)     *)
RedeemedSpoolIsGone ==
    \A t \in Table :
        verdict[t] = "ok" \/ (\E k \in Attempt : remove[t][k] = "removed")
            => spool[t].at # ref[t]

(* A WriteWindow attempt, first or retried, always finds a spool           *)
(* (workflow_materialise.go: "The spool is deleted only after WriteWindow  *)
(* succeeds, so every WriteWindow retry finds it"), though not always its  *)
(* ref's: it may be one that a FetchWindow attempt the server had given up *)
(* on read whole and put in its place. No retry fails for want of a spool  *)
(* that an earlier attempt, or a DeleteSpool, took away.                   *)
WriteFindsASpool ==
    \A t \in Table : stage[t] = "write" =>
        /\ spool[t] # Nothing
        /\ \E k \in Attempt : /\ fetch[t][k].pc # "idle"
                              /\ Matches(spool[t], fetch[t][k].at)
                              /\ spool[t].rows = fetch[t][k].rows

(* Every run comes to an end, and with it every table: a table that fails, *)
(* or whose workers keep dying, does not hold up the others (wg.Wait).     *)
EveryRunEnds == <>(run # "running" /\ \A t \in Table : verdict[t] # "none")

(* The run keeps the promise made to the readers of bronze.                *)
Refresh == INSTANCE WindowRefresh

KeepsPromise == Refresh!Spec

-----------------------------------------------------------------------------
(* The inductive invariant behind the safety properties.                   *)

(* Some attempt of t read exactly this file from the source.               *)
OneFetch(t, file) ==
    \E k \in Attempt :
        /\ fetch[t][k].at = file.at
        /\ fetch[t][k].rows = file.rows
        /\ 0 < file.at
        /\ file.at <= file.rows

(* The retry policy leaves an attempt to start whenever none is awaited.   *)
AttemptLeft == \A t \in Table : task[t] = "started" \/ attempt[t] < MaxAttempts

(* The stages run in order, each with what the ones before it produced.    *)
StageOrder ==
    \A t \in Table :
        /\ stage[t] = "fetch" => /\ ref[t] = 0
                                 /\ \A k \in Attempt : k > attempt[t] => fetch[t][k].pc = "idle"
        /\ stage[t] \in {"write", "delete"} => ref[t] # 0
        /\ stage[t] = "done" <=> verdict[t] # "none"
        /\ ref[t] = 0 => \A k \in Attempt : write[t][k].pc = "idle" /\ remove[t][k] = "idle"

(* An attempt's rows are no older than its instant, and no two attempts    *)
(* of a table share one.                                                   *)
FetchAttempts ==
    \A t \in Table, k \in Attempt :
        /\ fetch[t][k].at <= clock
        /\ fetch[t][k].pc = "idle" <=> fetch[t][k].at = 0
        /\ fetch[t][k].pc \in {"idle", "querying"} => fetch[t][k].rows = 0
        /\ fetch[t][k].pc \in {"read", "spooled"} => fetch[t][k].at <= fetch[t][k].rows
        /\ \A j \in Attempt :
             k # j /\ fetch[t][k].at # 0 => fetch[t][k].at # fetch[t][j].at

(* Every copy of the rows is one fetch, under the instant it came with.    *)
Copies ==
    \A t \in Table :
        /\ spool[t] # Nothing => OneFetch(t, spool[t])
        /\ bronze[t] # Nothing => bronze[t].at = ref[t] /\ OneFetch(t, bronze[t])
        /\ \A k \in Attempt : write[t][k].pc \in {"writing", "written"} =>
             OneFetch(t, [at |-> ref[t], rows |-> write[t][k].rows])

(* A ref is handed on by an attempt that has finished with the spool.      *)
RefFromFinished ==
    \A t \in Table : ref[t] # 0 =>
        \E k \in Attempt : fetch[t][k].pc = "gone" /\ fetch[t][k].at = ref[t]

(* Nothing removes a spool before WriteWindow has ended.                   *)
SpoolIsKept ==
    \A t \in Table : stage[t] \in {"fetch", "write"} =>
        /\ \A k \in Attempt : remove[t][k] = "idle"
        /\ stage[t] = "write" => spool[t] # Nothing
        /\ (\E k \in Attempt : fetch[t][k].pc = "spooled") => spool[t] # Nothing

(* Success is reported only of files that were replaced.                   *)
SuccessIsEarned ==
    \A t \in Table :
        /\ \A k \in Attempt : write[t][k].pc = "written" => bronze[t] # Nothing
        /\ stage[t] = "delete" /\ writeErr[t] = "nil" => bronze[t] # Nothing
        /\ verdict[t] = "ok" => bronze[t] # Nothing

IInv ==
    /\ TypeOK
    /\ AttemptLeft
    /\ StageOrder
    /\ FetchAttempts
    /\ Copies
    /\ RefFromFinished
    /\ SuccessIsEarned
    /\ RedeemedSpoolIsGone
    /\ SpoolIsKept
=============================================================================
