# Verification of the data platform

TLA+ models of the ingestion core of this repository, their model-checking
configurations, and proofs of what holds for every size of the system.

The platform copies tables of a Dolt database (the *beads* source) into *bronze*
Parquet files, one per table and time window, and builds warehouse marts from
them. A Temporal schedule starts a run every 15 minutes; each run re-extracts a
trailing *lookback* of windows. A command line tool can ingest beside it.

## 1. The system

| Component | State | Operations | Interacts with |
|---|---|---|---|
| **Schedule**, `internal/orchestrator/schedule.go` | one Temporal schedule per source: cadence, Skip overlap, 10 s catch-up, paused or not | `ApplySchedule` (create or update) | starts MaterialiseSource |
| **MaterialiseSource**, `workflow_materialise.go` | its children and their outcomes, the instant it started at | start one child per window of each grain, wait for all, then BuildMarts | children, clock |
| **MaterialiseWindow**, `workflow_materialise.go`, `activity_ingest.go`, `spool.go` | per table: the activity in progress, the SpoolRef; the spool files | FetchWindow, WriteWindow, DeleteSpool, their attempts and retries | source, spool directory, bronze Writer |
| **Worker**, `cmd/worker`, and Temporal's timers | the activity slots and who holds them | run attempts, heartbeat, give up | activities, source |
| **Writer**, `internal/bronze` | the bronze directory tree | `Write`: refuse, encode, sync, check, rename; `Path` | file system |
| **Runner** and the ingest command, `internal/runner`, `cmd/ingest` | slots, per-window tries, results | `RunOnce`, `Backfill` | Fetcher, Writer; runs beside the worker |
| **Windows**, `internal/window` | none | `Containing`, `Lookback`, `Range`, `Validate` | everyone |
| **beads Fetcher**, `internal/source/beads` | a connection pool | `Fetch`: one read-only transaction per window; decode each value | Dolt |
| **Records**, `internal/record` | none | validation of batches | Fetcher, Writer |
| **BuildMarts**, `workflow_buildmarts.go`, `activity_buildmarts.go` | where it is: first dbt pass, transforms, second dbt pass | DbtBuild (pre_go), RunTransform for each transform, DbtBuild (post_go) | dbt, DuckDB, transforms, Writer |
| **dbt Runner**, `internal/dbt` | `run_results.json`, written by a subprocess | `Build` | dbt process |
| **Go transforms**, `internal/transform` | none | `Materialise`: read a mart, derive rows, write bronze | Writer |
| **dbt models**, `dbt/` | DuckDB tables | SQL | bronze files |
| **Telemetry**, **transform command** | metrics; flags | | |

What is hard here, and what correctness means:

* **Attempts that outlive their timeout.** An activity is given up when its
  answer is late; the goroutine goes on, in its slot. All attempts of FetchWindow
  share one spool path. Bronze must still be *one* fetch, and be written once per
  run; a source that hangs must not take all the slots for good.
* **Lost answers.** WriteWindow may have replaced the file although the server
  never heard of it; its retry must find the spool and do no harm.
* **Crashes.** Processes die, the power fails. A bronze file must never be cut
  short.
* **Partial failure.** One table, one window, one grain fails; the others go on,
  the run reports it, and marts are not built over what is missing.
* **Coverage over time.** Runs fail, ticks are skipped, the server is down. A
  window read before it closed must be read again before it leaves the lookback.
* **Clocks.** Windows are UTC, the events table is wall time of a zone whose
  offset changes: no event may be read twice or lost.
* **Several writers of one file.** The ingest command, the schedule and given-up
  attempts may write the same window; the last rename wins.
* **Bounded pools and cancellation** in the Runner.
* **A subprocess with one result file.** dbt outlives a worker that dies; every
  dbt process rewrites the same `run_results.json` and the same database. A build
  must be judged by its own process, and marts must never fall behind.
  Transforms read the marts' files with no lock.
* **Tables that must agree.** The kinds and Go types of the Fetcher, of
  validation and of the Writer; the names of windows, files and workflows.

`PROJECT.json` lists these hazards at the lines where they bite, with the
properties that cover them.

## 2. The modules

| Module | Models | State and actions |
|---|---|---|
| `WindowRefresh` | what a MaterialiseWindow run promises to readers | each table's bronze file is replaced at most once, by one read; success means replaced |
| `MaterialiseWindow` | `materialiseTable`, the three activities, `spool.go`, Temporal's attempts | `stage`, `attempt`, `task`, `ref`, `writeErr`, `verdict`, `run` are what the server knows of the workflow; `fetch`, `write`, `remove` are the attempts on the workers, given-up ones included; `spool` and `bronze` are the files. `FetchStart … FetchAnswer` follow FetchWindow line by line, and so on for the other two; `…Error` is a returned error, `…Lost` a dead worker or lost answer, `Timeout` the server's decision |
| `WorkerSlots` | the clock of FetchWindow attempts and the worker's slots | `status`, `attempt` and the timers `sinceStart`, `sinceBeat` are the server's; `exec[t][k]` is attempt *k* on its worker and its age. `Tick` is the passing of time, `GiveUp` a timer, `Deadline` the end of an attempt's context |
| `AtomicFile` | what `Writer.Write` promises of one path | whole versions, published at most once, brought back only by a crash |
| `ReplaceFile` | `Writer.Write`, `replaceFile` | one action per system call of a call `c`; what processes see (`target`, `temps`, `data`) and what is on the disk (`diskTarget`, `diskTemps`, `diskData`) |
| `MaterialiseSource`, `MC_…` | the schedule, `MaterialiseSource` | a clock; one run at a time with a child per window; `bronze[g][k]` is the extraction instant of window *k* of grain *g*; `late` is a write under way outside the run, in the grains of `Overlap`. `chain` is a history variable: the latest successful ingestions with no gap between them |
| `EventExtraction`, `MC_…` | the events statement, `wallClock`, `Fetch`, staging of events | a clock, a change of offset `zone`, the events `logged`, and each window's file (`read`, `rows`). `Extract` reads any window that has begun, in any order; `Log` commits an event up to `Delay` late |
| `Runner`, `MC_…` | `runner.go` | the caller's goroutine (`main`, `next`), the semaphore `sem`, the wait group `wg`, and each job's goroutine (`step`, `attempt`, `result`) |
| `BuildMarts`, `MC_…` | `BuildMarts`, DbtBuild and RunTransform, `dbt.Runner.Build`, `transform.Materialise` | `run`, `outcome`, `stage`, `index`, `attempt`, `result` are the server's; `step`, `ctx`, `mine`, `rr`, `batch`, `reply` the attempt's on its worker (`BuildStart`, `BuildStat`, `BuildParse` follow `Build`; `Transform…` follow `Materialise`); `dbt`, `lock`, `file` are the processes, the one writer of `dev.duckdb` and `run_results.json`; `pre`, `derived`, `post` what the marts and the derived files show. `Dbt…` are the steps of dbt as `Build` relies on them (external). `orphaned` is a history variable: a dbt process has outlived its attempt |
| `Windows` | `window.go`, `bronze.Path`, `childWorkflowID`, `grainLookbacks` | pure operators |
| `Mentions` | `issue_mentions`: `mentionPattern`, `extractMentions`, `Run` | pure; a text is a sequence of character classes |
| `Batches` | `ColumnKind`, `decodeValue`, `Batch.Validate`, `Writer.Write`'s refusals, `schemaOf`, `valueOf` | pure; a value is its Go type and a number |
| `IssueHistory` | AS OF of the snapshots, `dim_issues`, `dim_issues_scd2` | pure, over a history of the source and of the reads |
| `FunctionCalls`, `MC_Functions` | calls of these four | a state is the input of one call, from sets of inputs that are parameters; `MC_Functions` makes them small |
| `*_proofs` | theorems and proofs about the module of that name | |

How they fit together. `ReplaceFile` shows that a bronze write is atomic, which
is why `MaterialiseWindow` (`WritePut`) and `Runner` (`Write`) take it as one
step. `MaterialiseWindow` shows what a child does to bronze and that it ends,
which is how `MaterialiseSource` sees one (`ChildFetch`, `ChildWrite`,
`ChildFail`, and a `late` write left behind). `WorkerSlots` adds the clock that
`MaterialiseWindow` does without: its `Timeout` may come at any moment, the
timers of `WorkerSlots` say when. `IngestFetch` and `LateWrite` of
`MaterialiseSource` are the Runner's `fetchAndWrite`, seen from outside.
`EventExtraction` says what a read of a closed window is worth
(`SettledIsComplete`), which `MaterialiseSource` takes as `Final`. `BuildMarts`
is what happens between `IngestDone` and `MartsReturn`: it starts over bronze
that `MartsOverFreshBronze` speaks of, and it returns by `EveryRunEnds`.

Abstractions. Rows are named by the version of the source they show. A spool or
bronze file is an instant and rows, without columns or encoding. In
`MaterialiseWindow` two attempts of FetchWindow never share an instant: they are
at least a two-second backoff or a timeout apart, `FetchedAt` counts
microseconds. In `WorkerSlots` the backoff, short beside the timeouts, and the
writing of the spool take no time; heartbeats arrive when they are sent. In
`MaterialiseSource` a file is *final* when it was extracted `Delay` after its
window closed, the time a row may take from its timestamp to its commit, which
is the source's business: `EventExtraction` proves (`SettledStaysComplete`) that
such a file holds all the events it will ever select. An hour is looked back to
for 24 hours, so with a run every hour a chain goes on at delays of up to 22.
Windows before the epoch are left out. The Runner's look at the context and the rename
after it are one step, for nothing looks in between; `ReplaceFile` keeps them
apart.

In `EventExtraction` an event is the instant at which it happened, `created_at`
the wall time of that instant, and one change of offset is looked at at a time:
none, back by an hour, or forward. Of a wall time that happened twice,
`timezone(…)` of DuckDB takes one of the two instants; the model allows either.

In `BuildMarts` a mart or derived file is named by the run whose bronze it shows,
so "behind" means the number of an earlier run, and 0 is one that shows none of
them: missing, empty, in part, or damaged. A transform reads whatever files of
`dim_issues` are there, without a lock (`mentions.go:160`): that is the version
they have, or 0 while a dbt process rewrites the directory (`BeingRewritten`) or
after one died of it. An unreadable file is one of `TransformError`'s causes.
dbt is external: a process waits for `dev.duckdb` or fails when another has it
(one writer at a time, `README.md` of the repository), writes marts while it has
it, may leave them broken when it fails or is killed, and then truncates and
rewrites `run_results.json`. Models and bronze of other sources are left out. A
transform whose attempt has ended does not write, as `Writer.Write` checks its
context before the rename; the instant between check and rename is the business
of `ReplaceFile` and of finding 2. Deaths of a worker and a lost answer are one
action, `Lost`, for the server cannot tell them apart.

In the pure modules an hour has any number of instants and a day any number of
hours; characters matter by their class (lower-case letters, digits, other word
characters, the dot, the dash); a Go value is its type and a number; what a text
that is no number decodes to is left out, and so are infinities. In a FLOAT
column numbers count in a unit in which every decimal is whole; `Double` and
`Single` are those that the two float types can be, `Shortest` what a float32
prints as. `IssueHistory` keeps two of the five
tracked attributes, one that can be NULL and one that cannot.

## 3. The runs

| Run | Bounds | What it shows |
|---|---|---|
| `window_attempts` | 1 table, 2 attempts; 22,980 states | `IInv`, `BronzeIsOneFetch`, `RedeemedSpoolIsGone`, `WriteFindsASpool`, `BronzeWrittenOnce`, `KeepsPromise` (refinement of `WindowRefresh`), `EveryRunEnds` |
| `replace_crash` | 2 calls, 2 power losses; 51,650 states | `IInv`, `TargetNeverTorn`, `FailureLeavesNothing`, `CancelledNeverPublished`, `ReplacesAtomically` (refinement of `AtomicFile`) |
| `source_grains` | hours of two instants with lookback 2 and a delay of 1, one day that goes on, with lookback 1 and also written from outside, 6 instants; 2,779,423 states | `NoGap`, `MartsOverFreshBronze`, `FinalStaysFinal` |
| `source_overlap` | 1 grain, 6 instants, outside writers | **violation** of `ReRunsConverge` (finding 2) |
| `runner_pool` | 4 jobs of 2 tables, 2 slots, 2 tries; 52,315 states | `IInv`, `WithinConcurrency`, `ReportIsTrue`, `LoggedOnceUnlessCancelled`, `Terminates` |
| `marts_attempts` | 2 runs, 2 transforms, 1 attempt of the first pass, 2 of everything else; 464,189 states | `MartsNeverBehind`, `OwnResultsReported`, `GoodBuildIsReported`, `MartsUpToDate`, `InOrder`, `EveryRunEnds` |
| `marts_foreign` | the same | **violation** of `ResultsAreOwn` (finding 3) |
| `slots_hung` | 2 activities, 3 attempts, 3 slots, timeouts of 2 and 3; 9,583 states | `AttemptsApart`, `HungQueryLeavesSlots`, `EveryTaskEnds` |
| `slots_heartbeat` | 1 activity, 2 attempts, 2 slots, timeouts of 1 and 2 | **violation** of `SlowQueryHasRoom` (finding 1) |
| `events_zones` | windows of two instants, 5 windows, 2 events, a delay of 1, three changes of offset; 1,003,760 states | `ReadOnce`, `SettledIsComplete`, `EventsArrive` |
| `events_fallback` | 1 event, an offset that falls back | **violation** of `CreatedMatches` (finding 4) |
| `functions` | see below; 392,481 states | `LookbackSuffices`, `RangePartitionsDates`, `WindowsHaveTheirNames`, `MentionsAreCounted`, `ValuesSurvive`, `BatchesEncode`, `HistoryIsIntervals`, `HistoryIsTrue` |

Why the bounds are enough. *window_attempts*: two attempts are the least with
which a given-up attempt can interfere with its successor; three (5.05 million
states, checked once, three minutes) show nothing new. Tables share no files and
no state but the outcome of the run, so the run takes one; two tables with one
attempt (31,819 states) were checked once, and the proofs cover any set of them.
*replace_crash*: two calls and two power losses let a crash undo a rename and a
second one meet what the first left. *source_grains*: six instants with hours of
two let windows be read open, closed but not yet final, and final, slip out of
the lookback after that, and be lost by a run that comes too late, with failed
runs in between (a chain that ignored the delay would violate `NoGap` here). The
day never closes and one of its files is enough to have outside writers beside a
grain without them; days of four instants with lookback 2, over five instants
(5,290,938 states, four and a half minutes), were checked once, and the proofs
cover any lengths. *runner_pool*: one
job must wait for a slot, one must be retried. *marts_attempts*: two runs give a
run leftovers of an earlier one in every file; two transforms give one that fails
after another succeeded. Three runs with one attempt of each pass (429,060
states), two runs with both passes and one of them retried the other way round
(1,760,813 states) and one run with two attempts of both (27,705) were checked
once. *slots_hung*: with three slots a hung activity's attempts can hold every
slot at once and make the other one wait, and StartToClose is no multiple of
the heartbeat timeout; three activities on two slots (119,404 states) were
checked once. *events_zones*: two instants before
a change of offset, two after, the hour that happens twice, and a window after it
in which its late events arrive. *functions*: instants around two ends of a day
of three hours; lookbacks up to 4; one to three tables of both grains; every text
of up to six characters of two letters, a digit, a capital, dot and dash, in two
fields, with prefixes `p` and `pq` or `q` (an id with a child suffix has five
characters); an int64 of three bits and every number it does not hold;
floats with gaps, decimals that round to either side, lie half-way or overflow,
and a float32 that prints as another number than it is; batches of
up to two columns and two values; every past of an issue over three days, with
every combination of days missing, read early or late. Every invariant and action
property of the passing runs is also proved without bounds; each inductive
invariant was checked with TLC at the bounds of its module's run before it was
proved.

Runs stop: a workflow ends, the clock ends, a Runner pass ends. That is why
deadlock is not checked (but in *functions*, which always returns); the liveness
properties say that they stop only where they should.

**Fairness.** `MaterialiseWindow`: weak fairness of each table's next attempt,
of timeouts, and of each attempt's own steps: some worker polls the queue, the
server's timers fire, a goroutine that is alive is scheduled. Workers may die
for ever, so nothing is assumed to succeed; the bound on attempts ends the run.
`WorkerSlots`: time passes, timers fire, contexts end, an attempt that has its
rows answers, and a free slot is given to each activity that waits. A query may
hang, so `QueryAnswers` is not fair; workers may die or not. `BuildMarts`: only
the dispatch of attempts and StartToClose are fair: no step of a worker or of dbt
is, so dbt may hang and workers may die for ever. `Runner`: goroutines are
scheduled and calls to the source and disk return; the free slot goes to the
caller, which is the only one to wait for it. The other modules assume none.

## 4. Findings

1. `workflow_materialise.go:78-79`: "5 min leaves room for a slow Dolt query".
   FetchWindow does not heartbeat while its query runs
   (`activity_ingest.go:102-107`) and the heartbeat timeout is one minute
   (`workflow_materialise.go:82`): every query of more than a minute is given up
   on a live worker and retried beside itself, five times, and the window fails.
   What limits the harm is the deadline of the attempt's context, which is
   StartToClose: at most five queries of one window run at once
   (`HungQueryHoldsFewSlots` is proved), and every slot comes back
   (`EveryTaskEnds`; without the deadline it fails).
2. `orchestrator/doc.go:11-12`, `bronze/doc.go:25-27`: re-runs converge on the
   same bronze. The last rename wins (`writer.go:179`): with the ingest command
   beside the worker, or a timed-out WriteWindow attempt, an older read can
   replace a newer one and take rows away until the window is next re-extracted;
   outside the lookback it is not. In grains that only runs write, `FinalIsKept`
   proves that it cannot happen.
3. `dbt/build.go:35-37`: Build "never reports a stale file's nodes". It compares
   the file's modification time with its own start (`build.go:81`), not who wrote
   it. A dbt process whose worker died, and which finishes after the next attempt
   has noted its start, gets its nodes reported as that attempt's. The success
   reported is right, being the exit code's, so whatever such processes do no
   mart or derived file falls behind (`MartsNeverBehind`, proved).
4. `dbt/tests/assert_event_created_matches_issue_created.sql:1-3`: every created
   event's UTC instant is within 60 seconds of its issue's. Of the hour that
   happens twice when the offset falls back, `stg_beads__events.sql:34` stages
   one pass an hour off. An issue created in that pass fails the test, and so the
   dbt build, from then on.

Observations no run is kept for:

* `workflow_materialise.go:149-150` says that every WriteWindow retry finds the
  spool. It finds *a* spool (`WriteFindsASpool`, proved), but a timed-out
  FetchWindow attempt may have replaced its own: WriteWindow then refuses it
  (`activity_ingest.go:158`) without a retry, and the window fails until the next
  run. The check of `matches` is what keeps bronze right; dropping it violates
  three properties.
* `mart_issue_mention_drift.sql:9-12` says that between `dim_issues` and the
  mentions "there is no extraction race", and `transform.go:40-43` that no failed
  transform leaves a partial derived file. A transform that meets an emptied or
  half-filled `dim_issues` does not fail: it reads the files that are there. Only
  a dbt process that outlived its attempt can rewrite them then, and a run may
  complete with a derived file of too few mentions, or none, until the next run.
  That is why `MartsNeverBehind` admits 0 for derived files, and why only
  `MartsUpToDate`, which speaks of runs without such a process, excludes it.
* `schema.go:39-40` says that anything that does not decode exactly is an error.
  A decimal given as text for a FLOAT or DOUBLE column, or a float32's, is
  rounded to a float64 (9007199254740993 becomes ...992) without one
  (`schema.go:83-90`). `ValuesSurvive` demands the nearest float64, the number
  itself where it is one, and an error only for what is beyond all of them.
* `runner.go:150-152` says that a window logs exactly one line. One whose wait
  between tries is cancelled logs none (`runner.go:178-181`);
  `LoggedOnceUnlessCancelled` is what holds.
* `stg_beads__events.sql:1-3` explains its deduplication by two windows that read
  the same event in the fall-back hour. That does not happen: `EventsAreReadOnce`
  is proved, as the comment in `decode_internal_test.go` has it.
* `dim_issues_scd2` has no end for an issue that was deleted: its last interval
  stays current. `HistoryIsTrue` speaks of days on which the issue exists.
* Ids with two dashes are mentioned only up to the second, and of two ids that
  overlap in a text one is lost; `MentionsAreCounted` excepts overlaps.
* `Batch.Validate` compares column names as written; two columns that differ in
  case pass, and DuckDB renames one. `BatchesEncode` speaks of the provenance
  columns, which the Writer does protect.

## 5. The proofs

All theorems are checked by TLAPS; their assumptions are the `ASSUME`s of the
modules (positive bounds, functions with the right domains, offsets that change
at a full hour and fall back by an hour at most, the dot and the dash are no word
characters, an error is not a value, there is a float64 and no float32 prints as something
too large for one, the inputs of a call have their types and
the rows of `dim_issues` their key), which TLC evaluates on the instances.

* `MaterialiseWindow_proofs`: `TypeCorrect`, `Invariant`,
  `BronzeIsAlwaysOneFetch`, `RedeemedSpoolStaysGone`, `WriteAlwaysFindsASpool`,
  `BronzeIsWrittenOnce`, `Refinement` (the specification implements
  `WindowRefresh`). The invariant says where each copy of the rows comes from:
  the spool is *some* attempt's read; what WriteWindow holds in hand is the read
  whose instant the ref names, because `matches` compared them and instants are
  not shared. So two writes of one run write the same file.
* `ReplaceFile_proofs`: `InvariantHolds`, `TargetIsNeverTorn`, `FailureIsClean`,
  `CancelledIsNeverPublished`, `Refinement` (implements `AtomicFile`). The
  invariant: what was synced is whole on the disk, and only synced files are
  ever named by the target, in memory or on the disk.
* `MaterialiseSource_proofs`: `Invariant`, `NoGapEver`,
  `MartsAlwaysOverFreshBronze`, `FinalIsKept`. A window that was final before the
  last successful ingestion either is in its lookback, and was then read after
  that since the run's reads follow its start, or slipped out of it, and then it
  was final when the previous successful run started, which left it so: a chain
  goes on only while each lookback reaches what was not final at the start of the
  run before. It rests on monotonicity of integer division only: any window
  lengths, delays and lookbacks will do.
* `Runner_proofs`: `Invariant`, `BoundedConcurrency`, `ReportAlwaysTrue`,
  `LoggedAtMostOnce`, `Refinement` (implements `WindowRefresh`, with a table for
  each window of the pass; TLC checked `KeepsPromise` once at the bounds of
  *runner_pool*). The counters equal the sizes of the sets they stand for, so a
  wait group at zero means that every goroutine has left, and the summary lists
  every window's last result.
* `BuildMarts_proofs`: `Invariant`, `MartsAreNeverBehind`; and, until a dbt
  process outlives its attempt, `ResultsAreAlwaysOwn`, `GoodBuildsAreReported`,
  `MartsAreUpToDate`, `AlwaysInOrder`. The first: a process that builds for a run
  sets the marts to that run, nobody sets them back to an earlier one (a process
  of an earlier run builds from the bronze of now, or breaks the marts), the
  transforms read that run's marts or what is left of them (`Derives({0, run})`),
  and the workflow goes on only after its own process exited with 0. The others:
  the only process running is the one waited for, so none runs while a transform
  reads (`Derives({run})`), a results file that is fresh is its own, and one that
  succeeded has left its file whole.
* `WorkerSlots_proofs`: `Invariant`, `AlwaysApart`, `HungQueryHoldsFewSlots`. An
  attempt is dispatched only when the one before it has answered or was given up,
  and then that one is at least a heartbeat timeout old; from there on both age
  together. Attempts that are that far apart, and not older than StartToClose,
  lie in different heartbeat timeouts, which bounds how many there are.
* `EventExtraction_proofs`: `Invariant`, `SettledStaysComplete`,
  `EventsAreReadOnce`, `EventsAlwaysArrive`. Wall time falls back by a window at
  most and at a window's bound, so the intervals of wall time that the windows
  select are disjoint and in order, and no event is selected by a window before
  the one it happened in, nor by one after the next.
* `FunctionCalls_proofs` is about the pure functions, for every input, and ends
  with the eight properties of *functions* as theorems of `FunctionCalls`, whose
  invariant is only that an input is one of a call.
  * Windows: `LookbackAlwaysReachesNow`, `BackfillAlwaysHasLookback`,
    `NoTableEverReadsLess`, `RangeAlwaysCoversDates`,
    `NamesAlwaysTellWindowsApart`, for hours and days of any length. Every window
    starts at a multiple of its grain's length, so what lies where is division.
    `grainLookbacks` folds over the tables: after *k* of them the list has the
    grains of the first *k*, once each, at the most any of them asks for.
  * Mentions: `MentionsAreAlwaysInTheText`, `NoSelfMentionEver`, for texts, ids
    and sets of prefixes of any size. What the pattern matches at a place is
    characterised by places alone, and so is an id; the two agree
    (`MatchEndsAre`), whatever the repeated group may stop at in between. The
    search goes on behind each match, so a longest id that it does not find
    starts inside another one. As issues have a key, one row holds each count.
  * Batches: `ValuesAlwaysSurvive`, `AcceptedIsAlwaysEncodable`, for an int64 of
    any width, floats with any gaps, any value and any columns: the tables of
    decoding, validation and encoding agree on every kind. A float64 nearest to
    a decimal exists because their distances are natural numbers.
  * History: `HistoryAlwaysOfIntervals`, `HistoryAlwaysTellsTheDay`, for any
    issues, any number of days and any reads. `run_id` counts changes, so the
    snapshots of a run lie between two changes and show the same; an interval
    reaches from a change to the next.

Of a function that TLA+ defines by recursion it must first be proved that it
exists. Both that and the inductions over texts and lists go by the greatest or
least place at which the fact would fail: there is one, since `<` is
well-founded on the naturals and a text is finite.

Model-checked only: liveness (`EveryRunEnds`, `EveryTaskEnds`, `Terminates`),
which needs reasoning about fairness that the provers do not offer.

## 6. What is not modelled, and the plan

Not modelled, for good: telemetry (write-only), the flags and the wiring of the
commands, the Parquet and gob encodings, SQL inside Dolt and DuckDB but for the
models named above, the marts that only aggregate.

Within modelled parts: inputs and requests refused as BadInput or Setup before
any state changes; cancellation of a workflow; totals; `ApplySchedule`, and a
schedule that is paused by hand (to `MaterialiseSource` it is an outage); the
catch-up window. Two MaterialiseSource runs at a time, which would collide on
their children's ids, do not come about: every start goes through the schedule,
whose policy is Skip.

Next, in this order:

1. A composition of `MaterialiseWindow` children under `MaterialiseSource`, to
   justify the atomic child by refinement.
2. `ApplySchedule` beside a schedule that is running.
