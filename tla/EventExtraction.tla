--------------------------- MODULE EventExtraction ---------------------------
(***************************************************************************)
(* Hourly windows over the events table. Windows are cut in UTC, but       *)
(* events.created_at is wall time of a zone whose offset changes, so the   *)
(* query turns the bounds of a window into wall time. Where the offset     *)
(* falls back, an hour of wall time happens twice; where it springs        *)
(* forward, one is left out. Staging turns created_at into UTC again. An   *)
(* event is known here by the instant at which it happened.                *)
(***************************************************************************)
EXTENDS Integers, FiniteSets

CONSTANTS
    Zone,       \* the changes of offset to look at: [at, before, after, repeated]
    Hour,       \* instants in a window
    Delay,      \* how much later than created_at says an event may be committed
    MaxEvents,  \* bound on the events logged
    MaxNow      \* bound on the clock

ASSUME HourAssumption == Hour \in Nat \ {0}
ASSUME BoundsAssumption == Delay \in Nat /\ MaxNow \in Nat
(* Offsets change at a full hour of UTC, as Australia/Sydney's do, and fall *)
(* back by an hour at most.                                                *)
ASSUME ZoneAssumption ==
    \A z \in Zone :
        /\ z.at \in Nat /\ z.before \in Nat /\ z.after \in Nat
        /\ z.at % Hour = 0
        /\ z.before - z.after <= Hour

VARIABLES
    zone,       \* cfg.EventsTZ
    now,        \* the clock
    logged,     \* the events committed so far
    read,       \* read[k]: extraction instant of window k's file, 0 if there is none
    rows        \* rows[k]: the events in it

vars == <<zone, now, logged, read, rows>>

Instant == 0 .. MaxNow

Containing(t) == t \div Hour

Window == 0 .. Containing(MaxNow)

(* Mutated form: the offset is looked up once, when the worker starts.     *)
WallClockFixed(t) == t + zone.before

WallClock(t) == t + (IF t < zone.at THEN zone.before ELSE zone.after)

(* What the statement compares with: created_at is the wall time at which  *)
(* the event happened, whatever the query does with its bounds.            *)
CreatedAt(e) == e + (IF e < zone.at THEN zone.before ELSE zone.after)

(* Mutated forms: an upper bound that belongs to the window, a lower bound *)
(* that does not.                                                          *)
SelectedBothEnds(e, k) == WallClock(k * Hour) <= CreatedAt(e) /\ CreatedAt(e) <= WallClock((k + 1) * Hour)
SelectedAfterStart(e, k) == WallClock(k * Hour) < CreatedAt(e) /\ CreatedAt(e) < WallClock((k + 1) * Hour)

(* WHERE created_at >= ? AND created_at < ?                                *)
Selected(e, k) == WallClock(k * Hour) <= CreatedAt(e) /\ CreatedAt(e) < WallClock((k + 1) * Hour)

(* timezone(...) of staging: of a wall time that happened twice, it takes  *)
(* the first or the last.                                                  *)
ToUTC(w) ==
    IF w - zone.before < zone.at /\ (w - zone.after < zone.at \/ zone.repeated = "first")
      THEN w - zone.before ELSE w - zone.after

Staged == UNION {rows[k] : k \in Window}

TypeOK ==
    /\ zone \in Zone
    /\ now \in Instant
    /\ logged \in SUBSET Instant
    /\ read \in [Window -> Instant]
    /\ rows \in [Window -> SUBSET Instant]

Init ==
    /\ zone \in Zone
    /\ now = 0
    /\ logged = {}
    /\ read = [k \in Window |-> 0]
    /\ rows = [k \in Window |-> {}]

Tick ==
    /\ now < MaxNow
    /\ now' = now + 1
    /\ UNCHANGED <<zone, logged, read, rows>>

(* An event that happened a moment ago is committed.                       *)
Log(e) ==
    /\ e <= now /\ now - e <= Delay
    /\ Cardinality(logged) < MaxEvents
    /\ logged' = logged \cup {e}
    /\ UNCHANGED <<zone, now, read, rows>>

(* A window is read, in one transaction, and its file is replaced: any     *)
(* window that has begun, any number of times (lookback, backfill).        *)
Extract(k) ==
    /\ now # 0
    /\ k <= Containing(now)
    /\ read' = [read EXCEPT ![k] = now]
    /\ rows' = [rows EXCEPT ![k] = {e \in logged : Selected(e, k)}]
    /\ UNCHANGED <<zone, now, logged>>

Next ==
    \/ Tick
    \/ \E e \in Instant : Log(e)
    \/ \E k \in Window : Extract(k)

Spec == Init /\ [][Next]_vars

-----------------------------------------------------------------------------
(* Properties.                                                             *)

(* No event is in the files of two windows, not even one of an hour that   *)
(* happened twice (decode_internal_test.go: "Every event is therefore      *)
(* fetched exactly once").                                                 *)
ReadOnce == \A j, k \in Window : j # k => rows[j] \cap rows[k] = {}

Settled(k) == read[k] >= (k + 1) * Hour + Delay

(* A window read once it has closed, and Delay has passed, holds all the   *)
(* events it will ever select: whatever the offset does, no event goes     *)
(* into a window from behind.                                              *)
SettledIsComplete ==
    \A k \in Window : Settled(k) => \A e \in logged : Selected(e, k) => e \in rows[k]

(* No event falls between two windows: it is in the file of the window it  *)
(* happened in, or of the next one, once both have been read for good.     *)
EventsArrive ==
    \A e \in logged :
        LET k == Containing(e) IN
        k + 1 \in Window /\ Settled(k) /\ Settled(k + 1) => e \in rows[k] \cup rows[k + 1]

(* What assert_event_created_matches_issue_created.sql demands: created_at *)
(* of a staged event is within 60 seconds of the instant its issue has,    *)
(* which the source keeps in UTC.                                          *)
CreatedMatches == \A e \in Staged : ToUTC(CreatedAt(e)) = e

-----------------------------------------------------------------------------

(* Files hold what their window selects, no event is logged before it      *)
(* happens, and settled windows are complete.                              *)
IInv ==
    /\ TypeOK
    /\ \A e \in logged : e <= now
    /\ \A k \in Window : read[k] <= now /\ \A e \in rows[k] : Selected(e, k)
    /\ SettledIsComplete
=============================================================================
