----------------------------- MODULE BuildMarts -----------------------------
(***************************************************************************)
(* The BuildMarts workflow, run after run: dbt builds the pre_go models,   *)
(* every Go transform derives its file from them, dbt builds the post_go   *)
(* models on the derived files. The DbtBuild activity runs dbt as a        *)
(* process of its own and learns what it did from its exit code and from   *)
(* run_results.json, one file that all dbt processes rewrite. A worker     *)
(* that dies leaves its dbt process behind.                                *)
(*                                                                         *)
(* Marts and derived files are named by the run whose bronze they show;    *)
(* 0 is one that shows none: missing, empty, in part, or damaged.          *)
(***************************************************************************)
EXTENDS Naturals, Sequences

CONSTANTS
    Runs,               \* runs modelled
    Transforms,         \* the transforms of the catalog are 1 .. Transforms
    BuildAttempts,      \* BuildAttempts[p]: dbtBuildOptions' MaximumAttempts, for each pass
    TransformAttempts   \* retryPolicy: MaximumAttempts

ASSUME RunsAssumption == Runs \in Nat
ASSUME TransformsAssumption == Transforms \in Nat \ {0}
ASSUME TransformAttemptsAssumption == TransformAttempts \in Nat \ {0}

Pass == {"pre_go", "post_go"}
ASSUME BuildAttemptsAssumption == BuildAttempts \in [Pass -> Nat \ {0}]

Transform == 1 .. Transforms
Version == 0 .. Runs

VARIABLES
    \* The workflow's view, kept by the server.
    run,        \* the run under way, or the last one
    outcome,    \* its outcome
    stage,      \* where it is
    index,      \* the transform it is at
    attempt,    \* attempts of the current activity started so far
    result,     \* result[p]: the process whose nodes DbtBuild reported for p, or 0
    \* The current attempt on its worker.
    step,       \* where it is; "none" before a worker has it
    ctx,        \* whether the worker has cancelled it
    mine,       \* the dbt process it started, or 0
    rr,         \* the process whose nodes it read from run_results.json, or 0
    batch,      \* the version of the marts a transform has read
    reply,      \* what it answers: "ok", "failed" for good, or "retry"
    \* The world outside.
    dbt,        \* every dbt process there was, in the order they were started
    lock,       \* the process that has dev.duckdb open for writing, or 0
    file,       \* run_results.json
    pre,        \* what the pre_go marts show
    derived,    \* derived[t]: what the derived file of t shows
    post,       \* post[t]: what the post_go marts on the derived file of t show
    orphaned    \* history: "yes" once a dbt process has outlived its attempt

serverVars == <<run, outcome, stage, index, attempt, result>>
workerVars == <<step, ctx, mine, rr, batch, reply>>
marts == <<pre, derived, post>>
vars == <<serverVars, workerVars, dbt, lock, file, marts, orphaned>>

(* ok: every node it ran succeeded, so that it exits with 0. A process     *)
(* that is killed counts as one that exits with an error.                  *)
Process == [run : 1 .. Runs, pass : Pass, ok : {"yes", "no"},
            pc : {"starting", "building", "recording", "writing", "exited"}]

(* by: the process that wrote the file last; fresh: it was written after   *)
(* the latest build had noted its start.                                   *)
File == [by : Nat, whole : {"no", "yes"}, fresh : {"no", "yes"}]

TypeOK ==
    /\ run \in Version
    /\ outcome \in {"none", "running", "completed", "failed"}
    /\ stage \in {"pre_go", "transforms", "post_go"}
    /\ index \in Transform
    /\ attempt \in Nat
    /\ result \in [Pass -> Nat]
    /\ step \in {"none", "dbt", "parse", "read", "write", "answer", "lost"}
    /\ ctx \in {"live", "done"}
    /\ mine \in Nat
    /\ rr \in Nat
    /\ batch \in Version
    /\ reply \in {"ok", "failed", "retry"}
    /\ dbt \in Seq(Process)
    /\ lock \in Nat
    /\ file \in File
    /\ pre \in Version
    /\ derived \in [Transform -> Version]
    /\ post \in [Transform -> Version]
    /\ orphaned \in {"no", "yes"}

Init ==
    /\ run = 0 /\ outcome = "none" /\ stage = "pre_go" /\ index = 1
    /\ attempt = 0 /\ result = [p \in Pass |-> 0]
    /\ step = "none" /\ ctx = "live" /\ mine = 0 /\ rr = 0
    /\ batch = 0 /\ reply = "ok"
    /\ dbt = <<>> /\ lock = 0
    /\ file = [by |-> 0, whole |-> "no", fresh |-> "no"]
    /\ pre = 0
    /\ derived = [t \in Transform |-> 0]
    /\ post = [t \in Transform |-> 0]
    /\ orphaned = "no"

-----------------------------------------------------------------------------
(* The workflow: what it does with the outcome of an activity.             *)

(* MaterialiseSource starts a run over what it has just ingested, never    *)
(* two at a time.                                                          *)
StartRun ==
    /\ outcome # "running" /\ run < Runs
    /\ run' = run + 1 /\ outcome' = "running"
    /\ stage' = "pre_go" /\ index' = 1 /\ attempt' = 0
    /\ result' = [p \in Pass |-> 0]
    /\ UNCHANGED <<workerVars, dbt, lock, file, marts, orphaned>>

End(how) ==
    /\ outcome' = how
    /\ UNCHANGED <<run, stage, index, attempt, result>>

GoTo(s, i) ==
    /\ stage' = s /\ index' = i /\ attempt' = 0
    /\ UNCHANGED <<run, outcome>>

BuildCompletes ==
    /\ result' = [result EXCEPT ![stage] = rr]
    /\ \/ /\ stage = "pre_go"
          /\ GoTo("transforms", 1)
       \/ /\ stage = "post_go"
          /\ outcome' = "completed"
          /\ UNCHANGED <<run, stage, index, attempt>>

TransformCompletes ==
    /\ \/ index < Transforms /\ GoTo("transforms", index + 1)
       \/ index = Transforms /\ GoTo("post_go", index)
    /\ UNCHANGED result

Completes ==
    \/ stage \in Pass /\ BuildCompletes
    \/ stage = "transforms" /\ TransformCompletes

(* Mutated form: the workflow goes on past a transform that failed.        *)
GoesOnPastTransforms ==
    \/ stage \in Pass /\ End("failed")
    \/ stage = "transforms" /\ TransformCompletes

(* A failed step fails the workflow, and nothing after it runs.            *)
ActivityFails == End("failed")

MaxAttempts == IF stage = "transforms" THEN TransformAttempts ELSE BuildAttempts[stage]

(* Mutated form: the last attempt's failure goes unnoticed.                *)
RetryOnly == attempt < MaxAttempts /\ UNCHANGED serverVars

(* The server gives another attempt while the retry policy allows one.     *)
RetryOrFail ==
    \/ attempt < MaxAttempts /\ UNCHANGED serverVars
    \/ attempt >= MaxAttempts /\ ActivityFails

-----------------------------------------------------------------------------
(* The dbt processes. What the code relies on: they open dev.duckdb for    *)
(* writing one at a time, write marts while they have it open, and then    *)
(* rewrite run_results.json in place.                                      *)

Running(b) == dbt[b].pc \in {"starting", "building", "recording", "writing"}

Becomes(b, pc, ok) ==
    dbt' = [dbt EXCEPT ![b] = [run |-> dbt[b].run, pass |-> dbt[b].pass,
                               ok |-> ok, pc |-> pc]]

(* A process that fails or dies while it builds may leave marts broken.    *)
Abandons(b) ==
    IF lock = b
      THEN /\ lock' = 0
           /\ \/ UNCHANGED marts
              \/ /\ dbt[b].pass = "pre_go"
                 /\ pre' = 0
                 /\ UNCHANGED <<derived, post>>
              \/ /\ dbt[b].pass = "post_go"
                 /\ post' = [t \in Transform |-> 0]
                 /\ UNCHANGED <<pre, derived>>
      ELSE UNCHANGED <<lock, marts>>

(* It writes marts over what bronze, or the derived files, hold now, file  *)
(* by file until it closes the database.                                   *)
DbtOpens(b) ==
    /\ dbt[b].pc = "starting"
    /\ lock = 0
    /\ lock' = b
    /\ Becomes(b, "building", "no")
    /\ \/ dbt[b].pass = "pre_go" /\ pre' = run /\ UNCHANGED <<derived, post>>
       \/ dbt[b].pass = "post_go" /\ post' = derived /\ UNCHANGED <<pre, derived>>
    /\ UNCHANGED <<serverVars, workerVars, file, orphaned>>

DbtBuilds(b) ==
    /\ dbt[b].pc = "building"
    /\ \/ /\ Becomes(b, "recording", "yes")
          /\ lock' = 0
          /\ UNCHANGED marts
       \/ /\ Becomes(b, "recording", "no")
          /\ Abandons(b)
    /\ UNCHANGED <<serverVars, workerVars, file, orphaned>>

(* No database (another process has it), a compile error, a crash: results *)
(* with errors, or none at all.                                            *)
DbtGivesUp(b) ==
    /\ dbt[b].pc \in {"starting", "building"}
    /\ \E pc \in {"recording", "exited"} : Becomes(b, pc, "no")
    /\ Abandons(b)
    /\ UNCHANGED <<serverVars, workerVars, file, orphaned>>

Writes(b, whole) == file' = [by |-> b, whole |-> whole, fresh |-> "yes"]

DbtTruncates(b) ==
    /\ dbt[b].pc = "recording"
    /\ Becomes(b, "writing", dbt[b].ok)
    /\ Writes(b, "no")
    /\ UNCHANGED <<serverVars, workerVars, lock, marts, orphaned>>

DbtRecords(b) ==
    /\ dbt[b].pc = "writing"
    /\ Becomes(b, "exited", dbt[b].ok)
    /\ Writes(b, "yes")
    /\ UNCHANGED <<serverVars, workerVars, lock, marts, orphaned>>

DbtStep(b) ==
    DbtOpens(b) \/ DbtBuilds(b) \/ DbtGivesUp(b) \/ DbtTruncates(b) \/ DbtRecords(b)

Killed(b) == Becomes(b, "exited", "no") /\ Abandons(b)

-----------------------------------------------------------------------------
(* DbtBuild.                                                               *)

Dispatched ==
    /\ outcome = "running" /\ step = "none"
    /\ attempt' = attempt + 1
    /\ UNCHANGED <<run, outcome, stage, index, result, ctx, batch>>

(* Build notes the time and starts dbt.                                    *)
BuildStart ==
    /\ stage \in Pass
    /\ Dispatched
    /\ dbt' = Append(dbt, [run |-> run, pass |-> stage, ok |-> "no", pc |-> "starting"])
    /\ mine' = Len(dbt) + 1
    /\ file' = [by |-> file.by, whole |-> file.whole, fresh |-> "no"]
    /\ step' = "dbt"
    /\ UNCHANGED <<rr, reply, lock, marts, orphaned>>

(* The marts directory cannot be made, or dbt cannot be started.           *)
BuildRefused ==
    /\ stage \in Pass
    /\ Dispatched
    /\ step' = "answer" /\ reply' = "failed"
    /\ UNCHANGED <<mine, rr, dbt, lock, file, marts, orphaned>>

Answers(r, nodes) ==
    /\ step' = "answer" /\ reply' = r /\ rr' = nodes
    /\ UNCHANGED <<ctx, mine, batch>>

(* A build that failed is final, unless the attempt itself was cut short.  *)
BuildFails(nodes) ==
    \/ ctx = "live" /\ Answers("failed", nodes)
    \/ ctx = "done" /\ Answers("retry", nodes)

(* Mutated form: the age of the results does not matter.                   *)
AnyResults == file.by # 0

(* Mutated form: the start is noted after dbt has run.                     *)
ResultsAfterRun == file.by # 0 /\ file.fresh = "no"

(* There are results, and they are no older than this build.               *)
FreshResults == file.by # 0 /\ file.fresh = "yes"

BuildStat ==
    /\ step = "dbt" /\ ~Running(mine)
    /\ \/ /\ FreshResults
          /\ step' = "parse"
          /\ UNCHANGED <<ctx, mine, rr, batch, reply>>
       \/ ~FreshResults /\ BuildFails(0)
    /\ UNCHANGED <<serverVars, dbt, lock, file, marts, orphaned>>

(* Mutated form: the exit code is not looked at.                           *)
ParseOnly ==
    /\ step = "parse"
    /\ \/ file.whole = "yes" /\ Answers("ok", file.by)
       \/ file.whole = "no" /\ BuildFails(0)
    /\ UNCHANGED <<serverVars, dbt, lock, file, marts, orphaned>>

(* The nodes reported are those of the file; whether the build succeeded   *)
(* is up to the exit code.                                                 *)
BuildParse ==
    /\ step = "parse"
    /\ \/ file.whole = "yes" /\ dbt[mine].ok = "yes" /\ Answers("ok", file.by)
       \/ file.whole = "yes" /\ dbt[mine].ok = "no" /\ BuildFails(file.by)
       \/ file.whole = "no" /\ BuildFails(0)
    /\ UNCHANGED <<serverVars, dbt, lock, file, marts, orphaned>>

-----------------------------------------------------------------------------
(* RunTransform.                                                           *)

TransformStart ==
    /\ stage = "transforms"
    /\ Dispatched
    /\ step' = "read"
    /\ UNCHANGED <<mine, rr, reply, dbt, lock, file, marts, orphaned>>

(* dim_issues' directory is emptied and filled again.                      *)
BeingRewritten == \E b \in DOMAIN dbt : dbt[b].pass = "pre_go" /\ dbt[b].pc = "building"

(* The files that are there are read, with no lock: while dbt rewrites     *)
(* them, or after it died of it, that may be none of them or some.         *)
TransformRead ==
    /\ step = "read"
    /\ step' = "write"
    /\ batch' = pre \/ (BeingRewritten /\ batch' = 0)
    /\ UNCHANGED <<serverVars, ctx, mine, rr, reply, dbt, lock, file, marts, orphaned>>

(* Writer.Write replaces the derived file, if the attempt is still wanted. *)
TransformWrite ==
    /\ step = "write" /\ ctx = "live"
    /\ derived' = [derived EXCEPT ![index] = batch]
    /\ step' = "answer" /\ reply' = "ok"
    /\ UNCHANGED <<serverVars, ctx, mine, rr, batch, dbt, lock, file, pre, post, orphaned>>

(* A file of dim_issues cannot be read, or the derived one not written: it *)
(* is as it was, for Materialise calls the Writer last.                    *)
TransformError ==
    /\ step \in {"read", "write"}
    /\ step' = "answer" /\ reply' = "retry"
    /\ UNCHANGED <<serverVars, ctx, mine, rr, batch, dbt, lock, file, marts, orphaned>>

-----------------------------------------------------------------------------
(* Attempts.                                                               *)

AttemptOver ==
    /\ step' = "none" /\ ctx' = "live" /\ mine' = 0 /\ rr' = 0
    /\ batch' = 0 /\ reply' = "ok"

Receive ==
    /\ step = "answer"
    /\ \/ reply = "ok" /\ Completes
       \/ reply = "failed" /\ ActivityFails
       \/ reply = "retry" /\ RetryOrFail
    /\ AttemptOver
    /\ UNCHANGED <<dbt, lock, file, marts, orphaned>>

(* The worker shuts down and cancels its attempts; exec kills dbt then.    *)
Shutdown ==
    /\ step \in {"dbt", "parse", "read", "write"} /\ ctx = "live"
    /\ ctx' = "done"
    /\ UNCHANGED <<serverVars, step, mine, rr, batch, reply, dbt, lock, file, marts, orphaned>>

KillDbt ==
    /\ step = "dbt" /\ ctx = "done" /\ Running(mine)
    /\ Killed(mine)
    /\ UNCHANGED <<serverVars, workerVars, file, orphaned>>

(* The worker dies, or its answer is lost; nobody stops its dbt process.   *)
Lost ==
    /\ step \in {"dbt", "parse", "read", "write", "answer"}
    /\ step' = "lost" /\ ctx' = "live" /\ rr' = 0 /\ batch' = 0 /\ reply' = "ok"
    /\ UNCHANGED <<serverVars, mine, dbt, lock, file, marts, orphaned>>

LeftBehind == step = "lost" /\ stage \in Pass /\ mine # 0 /\ Running(mine)

(* StartToClose: the attempt is given up; its own context ends with it and *)
(* takes a dbt process that a live worker waits for along.                 *)
Timeout ==
    /\ step # "none"
    /\ RetryOrFail
    /\ AttemptOver
    /\ orphaned' = IF LeftBehind THEN "yes" ELSE orphaned
    /\ IF step = "dbt" /\ Running(mine)
         THEN Killed(mine)
         ELSE UNCHANGED <<dbt, lock, marts>>
    /\ UNCHANGED file

Start == BuildStart \/ BuildRefused \/ TransformStart

Next ==
    \/ StartRun
    \/ Start \/ Receive \/ Timeout \/ Lost \/ Shutdown \/ KillDbt
    \/ BuildStat \/ BuildParse
    \/ TransformRead \/ TransformWrite \/ TransformError
    \/ \E b \in DOMAIN dbt : DbtStep(b)

Spec == Init /\ [][Next]_vars

(* Some worker polls the queue and the server's timers fire; nothing is    *)
(* assumed of workers and of dbt.                                          *)
Fairness == WF_vars(Start) /\ WF_vars(Timeout)

FairSpec == Spec /\ Fairness

-----------------------------------------------------------------------------
(* Properties.                                                             *)

Reporting == step = "answer" /\ stage \in Pass

(* What DbtBuild reports, succeeding or failing, are the nodes of the dbt  *)
(* process it started itself, and a completed run's result names for each  *)
(* pass a process of that run and pass that succeeded (Build "never        *)
(* reports a stale file's nodes").                                         *)
ResultsAreOwn ==
    /\ Reporting => rr \in {0, mine}
    /\ outcome = "completed" =>
           \A p \in Pass :
               /\ result[p] \in DOMAIN dbt
               /\ dbt[result[p]] = [run |-> run, pass |-> p, ok |-> "yes", pc |-> "exited"]

(* No dbt process has been left running by a worker that died until its    *)
(* attempt was given up. A process that lives on may write into later runs.*)
NoneOrphaned == orphaned = "no"

(* Until then the nodes reported are the attempt's own.                    *)
OwnResultsReported == NoneOrphaned => ResultsAreOwn

GoodBuildReported ==
    Reporting /\ mine # 0 /\ reply # "ok" => dbt[mine].ok = "no"

(* Until then a build whose process succeeded is reported as a success:    *)
(* neither the age of the results file nor anybody writing it makes a      *)
(* failure of it.                                                          *)
GoodBuildIsReported == NoneOrphaned => GoodBuildReported

AllUpToDate ==
    outcome = "completed" =>
        /\ pre = run
        /\ \A t \in Transform : derived[t] = run /\ post[t] = run

(* Until then a completed run leaves every mart and derived file showing   *)
(* its bronze, after whatever failures, retries and dead workers.          *)
MartsUpToDate == NoneOrphaned => AllUpToDate

(* Whatever abandoned dbt processes do, no mart or derived file shows      *)
(* older bronze once a run has completed. One of them may break a mart,    *)
(* and have a transform derive its file from a part of dim_issues, though. *)
MartsNeverBehind ==
    outcome = "completed" =>
        /\ pre \in {0, run}
        /\ \A t \in Transform : {derived[t], post[t]} \subseteq {0, run}

(* Until a dbt process is orphaned,                                        *)
(* a derived file is replaced only over pre_go marts built in this run,    *)
(* and a post_go mart only when the transforms of this run have all been   *)
(* done: a failed first pass leaves the transforms unrun, and a failed     *)
(* transform leaves the post_go marts as they were.                        *)
InOrder ==
    [][ NoneOrphaned' =>
          /\ derived' # derived => pre = run
          /\ post' # post => \A t \in Transform : derived[t] = run ]_vars

(* A run always ends, however many workers die and whatever dbt does.      *)
EveryRunEnds == outcome = "running" ~> outcome # "running"

-----------------------------------------------------------------------------
(* The inductive invariant behind them.                                    *)

(* The attempt under way is the run's, and the process it started is of    *)
(* its run and pass.                                                       *)
AttemptMatches ==
    /\ outcome = "running" => run # 0
    /\ step # "none" => outcome = "running"
    /\ step = "none" => mine = 0
    /\ step \in {"dbt", "parse"} => mine # 0
    /\ step \in {"read", "write"} => stage = "transforms"
    /\ mine # 0 => mine \in DOMAIN dbt /\ dbt[mine].run = run /\ dbt[mine].pass = stage
    /\ step = "parse" => dbt[mine].pc = "exited"
    /\ Reporting /\ reply = "ok" =>
           mine # 0 /\ dbt[mine].pc = "exited" /\ dbt[mine].ok = "yes"
    /\ outcome = "completed" => stage = "post_go"

ProcessesMatch ==
    \A b \in DOMAIN dbt :
        /\ dbt[b].run <= run
        /\ dbt[b].run = run /\ dbt[b].pass = "post_go" => stage = "post_go"
        /\ dbt[b].pc \in {"starting", "building"} => dbt[b].ok = "no"

(* Process b of this run is writing, or has written, the marts of pass p.  *)
Rebuilt(b, p) ==
    /\ dbt[b].run = run /\ dbt[b].pass = p
    /\ dbt[b].pc = "building" \/ dbt[b].ok = "yes"

(* What this run's transforms have derived so far shows one of versions.   *)
Derives(versions) ==
    /\ step = "write" => batch \in versions
    /\ stage = "transforms" =>
           /\ \A t \in Transform : t < index => derived[t] \in versions
           /\ step = "answer" /\ reply = "ok" => derived[index] \in versions
    /\ stage = "post_go" => \A t \in Transform : derived[t] \in versions

NothingBehind ==
    /\ \A b \in DOMAIN dbt :
           /\ Rebuilt(b, "pre_go") => pre \in {0, run}
           /\ Rebuilt(b, "post_go") => \A t \in Transform : post[t] \in {0, run}
    /\ stage # "pre_go" => pre \in {0, run}
    /\ Derives({0, run})
    /\ MartsNeverBehind

(* Until a process is orphaned the only one is the one waited for.         *)
Alone ==
    /\ \A b \in DOMAIN dbt : Running(b) => b = mine /\ step \in {"dbt", "lost"}
    /\ step = "none" => rr = 0
    /\ step = "parse" => file.fresh = "yes"
    /\ mine # 0 =>
           /\ file.fresh = "yes" => file.by = mine
           /\ dbt[mine].pc = "exited" /\ dbt[mine].ok = "yes" =>
                  file = [by |-> mine, whole |-> "yes", fresh |-> "yes"]
           /\ Rebuilt(mine, "pre_go") => pre = run
           /\ Rebuilt(mine, "post_go") => \A t \in Transform : post[t] = run
    /\ stage # "pre_go" =>
           /\ pre = run
           /\ result["pre_go"] \in DOMAIN dbt
           /\ dbt[result["pre_go"]] =
                  [run |-> run, pass |-> "pre_go", ok |-> "yes", pc |-> "exited"]
    /\ Derives({run})
    /\ Reporting /\ reply = "ok" => rr = mine
    /\ ResultsAreOwn
    /\ GoodBuildReported
    /\ AllUpToDate

IInv ==
    /\ TypeOK
    /\ AttemptMatches
    /\ ProcessesMatch
    /\ NothingBehind
    /\ NoneOrphaned => Alone
=============================================================================
