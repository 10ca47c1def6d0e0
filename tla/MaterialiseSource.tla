------------------------- MODULE MaterialiseSource -------------------------
(***************************************************************************)
(* The runs of one source over time: the schedule (or a trigger) starts    *)
(* MaterialiseSource unless a run is still going; the run re-extracts the  *)
(* trailing windows of every grain, one MaterialiseWindow child each, and  *)
(* builds the marts when all of them succeed. Ticks are missed while the   *)
(* server is down or the schedule paused. A child is seen through what it  *)
(* does to bronze: it reads the source, replaces the window's files, and   *)
(* succeeds or fails. The ingest command writes the same files unasked.    *)
(***************************************************************************)
EXTENDS Integers

CONSTANTS
    Grain,          \* the grains of the source's tables
    Duration,       \* Duration[g]: instants in a window of grain g
    Lookback,       \* Lookback[g]: the most any table of grain g looks back
    Delay,          \* Delay[g]: how late the source may commit a row of a window
    MaxNow,         \* bound on the clock
    Overlap         \* the grains whose files are also written from outside the run in progress

ASSUME DurationAssumption == Duration \in [Grain -> Nat \ {0}]
ASSUME LookbackAssumption == Lookback \in [Grain -> Nat \ {0}]
ASSUME DelayAssumption == Delay \in [Grain -> Nat]
ASSUME MaxNowAssumption == MaxNow \in Nat \ {0}
ASSUME OverlapAssumption == Overlap \in SUBSET Grain

VARIABLES
    now,        \* the clock all parts read
    phase,      \* of the run in progress: "ingest", "marts", or "idle" without one
    start,      \* workflow.Now of the run in progress, or of the last one
    child,      \* child[g][k]: the MaterialiseWindow child for window k of grain g
    fetched,    \* fetched[g][k]: when that child read the source, 0 unless it has
    bronze,     \* bronze[g][k]: extraction instant of the window's files, 0 if none
    late,       \* late[g][k]: extraction instant of a write from outside, 0 if none
    writer,     \* writer[g][k]: who wrote it last, a "run" or some "other"
    chain       \* the latest successful ingestions with no gap between them

vars == <<now, phase, start, child, fetched, bronze, late, writer, chain>>

Instant == 0 .. MaxNow

-----------------------------------------------------------------------------
(* Windows, numbered from the epoch: k is [k * Duration[g],                *)
(* (k + 1) * Duration[g]).                                                 *)

Containing(t, g) == t \div Duration[g]

Window(g) == 0 .. Containing(MaxNow, g)

(* Mutated form: one window short.                                         *)
LookbackTooShort(t, g) ==
    {k \in Window(g) : Containing(t, g) - Lookback[g] + 1 < k /\ k <= Containing(t, g)}

(* The last of the Lookback[g] windows contains t. (Those before the       *)
(* epoch are left out.)                                                    *)
LookbackWindows(t, g) ==
    {k \in Window(g) : Containing(t, g) - Lookback[g] < k /\ k <= Containing(t, g)}

(* At t window k has closed and the last of its rows has been committed: a *)
(* file extracted then holds all of it (EventExtraction!Settled).          *)
Final(t, g, k) == Containing(t - Delay[g], g) > k

Over(g, v) == [k \in Window(g) |-> v]

TypeOK ==
    /\ now \in Instant /\ start \in Instant
    /\ phase \in {"idle", "ingest", "marts"}
    /\ chain \in [first : Instant, last : Instant]
    /\ DOMAIN child = Grain /\ DOMAIN fetched = Grain
    /\ DOMAIN bronze = Grain /\ DOMAIN late = Grain /\ DOMAIN writer = Grain
    /\ \A g \in Grain :
         /\ child[g] \in [Window(g) -> {"none", "started", "fetched", "ok", "failed"}]
         /\ fetched[g] \in [Window(g) -> Instant]
         /\ bronze[g] \in [Window(g) -> Instant]
         /\ late[g] \in [Window(g) -> Instant]
         /\ writer[g] \in [Window(g) -> {"run", "other"}]

Init ==
    /\ now = 1 /\ start = 0
    /\ phase = "idle"
    /\ child = [g \in Grain |-> Over(g, "none")]
    /\ fetched = [g \in Grain |-> Over(g, 0)]
    /\ bronze = [g \in Grain |-> Over(g, 0)]
    /\ late = [g \in Grain |-> Over(g, 0)]
    /\ writer = [g \in Grain |-> Over(g, "run")]
    /\ chain = [first |-> 0, last |-> 0]

-----------------------------------------------------------------------------

Tick ==
    /\ now < MaxNow
    /\ now' = now + 1
    /\ UNCHANGED <<phase, start, child, fetched, bronze, late, writer, chain>>

(* A tick of the schedule, or a trigger of it. Overlap policy Skip: none   *)
(* starts a run while one is going. A run that cannot start (no server, a  *)
(* paused schedule, a tick caught up too late) is a step not taken.        *)
StartRun ==
    /\ phase = "idle"
    /\ phase' = "ingest"
    /\ start' = now
    /\ child' = [g \in Grain |-> [k \in Window(g) |->
                   IF k \in LookbackWindows(now, g) THEN "started" ELSE "none"]]
    /\ UNCHANGED <<now, fetched, bronze, late, writer, chain>>

ChildBecomes(g, k, s, at) ==
    /\ child' = [child EXCEPT ![g][k] = s]
    /\ fetched' = [fetched EXCEPT ![g][k] = at]

(* Mutated form: the path names the table and not the window.              *)
ReplaceAllWindows(g, k, at, who) ==
    /\ bronze' = [bronze EXCEPT ![g] = Over(g, at)]
    /\ writer' = [writer EXCEPT ![g] = Over(g, who)]

Replace(g, k, at, who) ==
    /\ bronze' = [bronze EXCEPT ![g][k] = at]
    /\ writer' = [writer EXCEPT ![g][k] = who]

(* The child stamps _extracted_at and then reads the source.               *)
ChildFetch(g, k) ==
    /\ child[g][k] = "started"
    /\ ChildBecomes(g, k, "fetched", now)
    /\ UNCHANGED <<now, phase, start, bronze, late, writer, chain>>

ChildWrite(g, k) ==
    /\ child[g][k] = "fetched"
    /\ ChildBecomes(g, k, "ok", 0)
    /\ Replace(g, k, fetched[g][k], "run")
    /\ UNCHANGED <<now, phase, start, late, chain>>

(* A child may fail before it has written and after; and it may leave an   *)
(* attempt behind that the server has given up and that has yet to write.  *)
ChildFail(g, k) ==
    /\ child[g][k] \in {"started", "fetched"}
    /\ ChildBecomes(g, k, "failed", 0)
    /\ \/ UNCHANGED <<bronze, writer, late>>
       \/ child[g][k] = "fetched" /\ Replace(g, k, fetched[g][k], "run") /\ UNCHANGED late
       \/ /\ g \in Overlap /\ child[g][k] = "fetched" /\ late[g][k] = 0
          /\ late' = [late EXCEPT ![g][k] = fetched[g][k]]
          /\ UNCHANGED <<bronze, writer>>
    /\ UNCHANGED <<now, phase, start, chain>>

(* The results of the children have been looked at.                        *)
Forget ==
    /\ child' = [g \in Grain |-> Over(g, "none")]
    /\ fetched' = [g \in Grain |-> Over(g, 0)]

AllChildren(S) == \A g \in Grain : \A k \in Window(g) : child[g][k] \in S

(* A later run at t still looks back to all that was not final at s.       *)
NoWindowBetween(s, t) ==
    \A g \in Grain : Containing(t, g) - Containing(s - Delay[g], g) < Lookback[g]

Extend(c, t) ==
    [first |-> IF c.last # 0 /\ NoWindowBetween(c.last, t) THEN c.first ELSE t, last |-> t]

(* Mutated form: what the children report is not looked at.                *)
IngestDoneAnyway ==
    /\ phase = "ingest"
    /\ AllChildren({"none", "ok", "failed"})
    /\ phase' = "marts"
    /\ chain' = Extend(chain, start)
    /\ Forget
    /\ UNCHANGED <<now, start, bronze, late, writer>>

(* Mutated form: the marts are built as soon as one child has succeeded.   *)
IngestDoneEarly ==
    /\ phase = "ingest"
    /\ \E g \in Grain : \E k \in Window(g) : child[g][k] = "ok"
    /\ phase' = "marts"
    /\ chain' = Extend(chain, start)
    /\ Forget
    /\ UNCHANGED <<now, start, bronze, late, writer>>

(* Every child has been waited for; none failed.                           *)
IngestDone ==
    /\ phase = "ingest"
    /\ AllChildren({"none", "ok"})
    /\ phase' = "marts"
    /\ chain' = Extend(chain, start)
    /\ Forget
    /\ UNCHANGED <<now, start, bronze, late, writer>>

IngestFailed ==
    /\ phase = "ingest"
    /\ AllChildren({"none", "ok", "failed"})
    /\ ~AllChildren({"none", "ok"})
    /\ phase' = "idle"
    /\ Forget
    /\ UNCHANGED <<now, start, bronze, late, writer, chain>>

(* BuildMarts returns, with the marts built or with an error: the run ends *)
(* either way.                                                             *)
MartsReturn ==
    /\ phase = "marts"
    /\ phase' = "idle"
    /\ UNCHANGED <<now, start, child, fetched, bronze, late, writer, chain>>

(* The ingest command reads a window, now closed or not, and replaces its  *)
(* file some time later. One such write per window at a time.              *)
IngestFetch(g, k) ==
    /\ g \in Overlap
    /\ late[g][k] = 0
    /\ k <= Containing(now, g)
    /\ late' = [late EXCEPT ![g][k] = now]
    /\ UNCHANGED <<now, phase, start, child, fetched, bronze, writer, chain>>

LateWrite(g, k) ==
    /\ late[g][k] # 0
    /\ Replace(g, k, late[g][k], "other")
    /\ late' = [late EXCEPT ![g][k] = 0]
    /\ UNCHANGED <<now, phase, start, child, fetched, chain>>

ChildStep(g, k) == ChildFetch(g, k) \/ ChildWrite(g, k) \/ ChildFail(g, k)

Next ==
    \/ Tick \/ StartRun
    \/ \E g \in Grain : \E k \in Window(g) :
         ChildStep(g, k) \/ IngestFetch(g, k) \/ LateWrite(g, k)
    \/ IngestDone \/ IngestFailed \/ MartsReturn

Spec == Init /\ [][Next]_vars

-----------------------------------------------------------------------------
(* Properties.                                                             *)

(* Take any stretch of successful ingestions, with failed runs and outages *)
(* between them, in which none started so late that a window had slipped   *)
(* out of the lookback: from the first one's lookback to the last one's    *)
(* start, every window that had closed, and whose rows had all been        *)
(* committed, by that start is in bronze with all its rows, unless its     *)
(* file was last written from outside the runs.                            *)
NoGap ==
    chain.last # 0 =>
        \A g \in Grain : \A k \in Window(g) :
            Containing(chain.first, g) - Lookback[g] < k /\ Final(chain.last, g, k)
                => Final(bronze[g][k], g, k) \/ writer[g][k] = "other"

(* The marts are built over bronze that shows, for every window the run    *)
(* looks back to, the source as of the run's start or later                *)
(* (orchestrator/doc.go: "if any ingestion child failed, the marts are not *)
(* rebuilt over incomplete bronze"), but for files the ingest command or a  *)
(* given-up attempt wrote last.                                            *)
MartsOverFreshBronze ==
    phase = "marts" =>
        \A g \in Grain : \A k \in LookbackWindows(start, g) :
            bronze[g][k] >= start \/ writer[g][k] = "other"

(* No step sets a window of these grains whose files hold all its rows     *)
(* back to files that hold fewer.                                          *)
KeepsFinal(S) ==
    \A g \in S : \A k \in Window(g) :
        Final(bronze[g][k], g, k) => Final(bronze'[g][k], g, k)

(* Where only runs write, a window whose files hold all its rows is never  *)
(* set back to files that hold fewer: children that fail, are re-run, or   *)
(* read while the window closes notwithstanding.                           *)
FinalStaysFinal == [][KeepsFinal(Grain \ Overlap)]_vars

(* The same wherever anything writes (orchestrator/doc.go: "a re-run of    *)
(* the same window converges on the same bronze file").                    *)
ReRunsConverge == [][KeepsFinal(Grain)]_vars

-----------------------------------------------------------------------------
(* The inductive invariant behind them.                                    *)

InOrder == start <= now /\ chain.last <= start /\ chain.first <= chain.last

(* Every window of the lookback has a child, and children only live while  *)
(* the run waits for them.                                                 *)
ChildrenOfRun ==
    \A g \in Grain : \A k \in Window(g) :
        /\ phase = "ingest" /\ k \in LookbackWindows(start, g) => child[g][k] # "none"
        /\ phase # "ingest" => child[g][k] = "none"

(* What the run reads, and what it has written, is no older than its start.*)
ReadInRun ==
    \A g \in Grain : \A k \in Window(g) :
        /\ child[g][k] = "fetched" => start <= fetched[g][k] /\ fetched[g][k] <= now
        /\ child[g][k] = "ok" => start <= bronze[g][k] \/ writer[g][k] = "other"

(* Without writes from outside, a file the run has yet to write is older   *)
(* than the run.                                                           *)
NothingFromOutside ==
    \A g \in Grain \ Overlap : \A k \in Window(g) :
        /\ late[g][k] = 0
        /\ bronze[g][k] <= now
        /\ child[g][k] \in {"started", "fetched"} => bronze[g][k] <= start

IInv ==
    /\ TypeOK
    /\ InOrder
    /\ ChildrenOfRun
    /\ ReadInRun
    /\ NothingFromOutside
    /\ NoGap
    /\ MartsOverFreshBronze
=============================================================================
