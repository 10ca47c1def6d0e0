------------------------------- MODULE Windows -------------------------------
(***************************************************************************)
(* Half-open, UTC-aligned windows over instants, the lists of windows that *)
(* the schedule (Lookback) and a backfill (Range) extract, and the names a *)
(* window gives to its bronze file and to its workflow. A date is a number *)
(* of days; what a refused call returns is left open, its guard is not.    *)
(***************************************************************************)
EXTENDS Integers, Sequences, SequencesExt

CONSTANTS
    HourLength,     \* instants in an hour
    HoursPerDay     \* hours in a day

ASSUME LengthAssumption == HourLength \in Nat \ {0} /\ HoursPerDay \in Nat \ {0}

Grain == {"hour", "day"}

DayLength == HoursPerDay * HourLength

Duration(g) == IF g = "hour" THEN HourLength ELSE IF g = "day" THEN DayLength ELSE 0

(* time.Truncate                                                           *)
Truncate(t, d) == IF d = 0 THEN t ELSE (t \div d) * d

WindowAt(start, g) == [start |-> start, end |-> start + Duration(g), grain |-> g]

Containing(t, g) == WindowAt(Truncate(t, Duration(g)), g)

LookbackRefused(n) == n < 1

(* Mutated form: n windows before the one that contains now.               *)
LookbackBehind(now, g, n) ==
    [i \in 1 .. n |-> WindowAt(Containing(now, g).start - (n + 1 - i) * Duration(g), g)]

(* Oldest first.                                                           *)
Lookback(now, g, n) ==
    [i \in 1 .. n |-> WindowAt(Containing(now, g).start - (n - i) * Duration(g), g)]

Date(t) == Truncate(t, DayLength)

RangeRefused(from, to, g) == g \notin Grain \/ Date(from) > Date(to)

WindowsBetween(first, end, g) ==
    [i \in 1 .. (end - first + Duration(g) - 1) \div Duration(g) |-> WindowAt(first + (i - 1) * Duration(g), g)]

(* Mutated form: it stops where the last date starts.                      *)
RangeToExcluded(from, to, g) == WindowsBetween(Date(from), Date(to), g)

DateRange(from, to, g) == WindowsBetween(Date(from), Date(to) + DayLength, g)

Valid(w) ==
    /\ w.grain \in Grain
    /\ w.start = Truncate(w.start, Duration(w.grain))
    /\ w.end = w.start + Duration(w.grain)

HourOfDay(t) == (t % DayLength) \div HourLength

(* What String shows of a window.                                          *)
Name(w) == IF w.grain = "hour" THEN <<Date(w.start), HourOfDay(w.start)>> ELSE <<Date(w.start)>>

childWorkflowID(source, w) == <<"materialise", source, w.grain, Name(w)>>

PathRefused(zone, w) == ~Valid(w) \/ zone \notin {"raw", "derived"}

(* Mutated form: named by the end of the window.                           *)
PathByEnd(zone, dataset, w) ==
    [zone |-> zone, dataset |-> dataset, dt |-> Date(w.end),
     file |-> IF w.grain = "hour" THEN <<"hh", HourOfDay(w.end)>> ELSE <<"part-0">>]

(* The directories of a bronze file, and its name in them.                 *)
Path(zone, dataset, w) ==
    [zone |-> zone, dataset |-> dataset, dt |-> Date(w.start),
     file |-> IF w.grain = "hour" THEN <<"hh", HourOfDay(w.start)>> ELSE <<"part-0">>]

LargerOf(a, b) == IF a < b THEN b ELSE a

(* Mutated form: the first table decides.                                  *)
FirstOfGrain(out, t) == IF \E i \in DOMAIN out : out[i].grain = t.grain THEN out ELSE Append(out, t)

AddTable(out, t) ==
    IF \E i \in DOMAIN out : out[i].grain = t.grain
      THEN [i \in DOMAIN out |->
              IF out[i].grain = t.grain
                THEN [out[i] EXCEPT !.lookback = LargerOf(@, t.lookback)] ELSE out[i]]
      ELSE Append(out, t)

(* Each grain once, in the order of its first table, with the largest      *)
(* lookback; a table is its grain and its lookback.                        *)
grainLookbacks(tables) == FoldLeft(AddTable, <<>>, tables)

-----------------------------------------------------------------------------
(* Properties, for one input each.                                         *)

(* A lookback has no hole and no overlap, its windows are well-formed, and *)
(* now is in the last.                                                     *)
LookbackReachesNow(now, g, n) ==
    LET ws == Lookback(now, g, n) IN
    /\ Len(ws) = n
    /\ \A i \in 1 .. n : Valid(ws[i])
    /\ \A i \in 1 .. n - 1 : ws[i].end = ws[i + 1].start
    /\ ws[n].start <= now /\ now < ws[n].end

(* A backfill of the dates of a lookback has each of its windows: schedule *)
(* and backfill replace the same files.                                    *)
BackfillHasLookback(now, g, n) ==
    LET ws == Lookback(now, g, n) IN
    \A i \in 1 .. n : \E j \in DOMAIN DateRange(ws[1].start, now, g) :
        ws[i] = DateRange(ws[1].start, now, g)[j]

(* Every instant of the dates, and no other, is in exactly one window of a *)
(* range, and that is the window that contains it.                         *)
RangeCoversDates(from, to, g, t) ==
    LET ws == DateRange(from, to, g)
        holds(i) == ws[i].start <= t /\ t < ws[i].end
    IN  IF Date(from) <= t /\ t < Date(to) + DayLength
          THEN \E i \in DOMAIN ws :
                  ws[i] = Containing(t, g) /\ holds(i) /\ \A j \in DOMAIN ws : holds(j) => j = i
          ELSE \A i \in DOMAIN ws : ~holds(i)

(* Windows of a source never share a bronze file, nor the id of the        *)
(* workflow that extracts them, be they hours or days; a file is under the *)
(* date of its window.                                                     *)
NamesTellWindowsApart(v, w) ==
    /\ v # w => Path("raw", "events", v) # Path("raw", "events", w)
    /\ v # w => childWorkflowID("beads", v) # childWorkflowID("beads", w)
    /\ Path("raw", "events", v).dt = Containing(v.start, "day").start

(* No table re-extracts fewer windows than it declares, or more than some  *)
(* table of its grain declares; each grain comes once.                     *)
NoTableReadsLess(tables) ==
    LET out == grainLookbacks(tables) IN
    /\ \A t \in ToSet(tables) : \E i \in DOMAIN out : out[i].grain = t.grain /\ out[i].lookback >= t.lookback
    /\ ToSet(out) \subseteq ToSet(tables)
    /\ \A i, j \in DOMAIN out : out[i].grain = out[j].grain => i = j
=============================================================================
