---------------------------- MODULE FunctionCalls ----------------------------
(***************************************************************************)
(* The program's pure functions, one call at a time: a state is the input  *)
(* of a call, taken from the sets below, and an invariant speaks of the    *)
(* inputs of its kind. The sets may be as large as one likes: a type is    *)
(* all that is assumed of them.                                            *)
(***************************************************************************)
EXTENDS Windows, Mentions, Batches, IssueHistory

CONSTANTS
    Instant,        \* the instants of the calls
    Length,         \* the lengths of a lookback
    Tables,         \* the lists of tables of a source
    Character,      \* of which ids and texts are made
    Field,          \* the text fields of an issue
    Issues,         \* the tables dim_issues that mentions are looked for in
    Number,         \* the numbers that the driver's values hold
    Column,         \* the columns there are
    BatchColumns,   \* the columns, and
    BatchRow,       \*   a row, of the batches given to the Writer
    Now,            \* the number of days of a history
    History         \* the histories of the source

VARIABLES input

Declared == [grain : Grain, lookback : Nat \ {0}]

(* The rows of dim_issues have a key.                                      *)
IssuesAssumption ==
    \A rows \in Issues :
        /\ \A r \in rows : r.issue_id \in Seq(Character) /\ r.text \in [Field -> Seq(Character)]
        /\ \A q, r \in rows : q.issue_id = r.issue_id => q = r

CallsAssumption ==
    /\ Instant \subseteq Int /\ Length \subseteq Int /\ Number \subseteq Int
    /\ Tables \subseteq Seq(Declared)
    /\ BatchColumns \subseteq Seq(Column) /\ BatchRow \subseteq Seq([go : GoType, n : Number])
    /\ Now \in Nat \ {0}
    /\ History \subseteq [0 .. Now -> [Issue -> Tracked \cup {Absent}]]

ASSUME InputsAssumption == IssuesAssumption /\ CallsAssumption

None == [kind |-> "none"]

LookbackCalls == [kind : {"lookback"}, now : Instant, grain : Grain, n : {n \in Length : ~LookbackRefused(n)}]

RangeCalls ==
    {call \in [kind : {"range"}, from : Instant, to : Instant, grain : Grain \cup {"week"}, t : Instant] :
        ~RangeRefused(call.from, call.to, call.grain)}

SomeWindows == {w \in {WindowAt(s, g) : s \in Instant, g \in Grain} : ~PathRefused("raw", w)}

PathCalls == [kind : {"path"}, v : SomeWindows, w : SomeWindows]

TablesCalls == [kind : {"tables"}, tables : Tables]

MentionsCalls == [kind : {"mentions"}, rows : Issues]

ValueCalls == [kind : {"value"}, type : DatabaseType, v : {v \in [go : GoType, n : Number] : Served(v)}]

BatchCalls == [kind : {"batch"}, batch : [columns : BatchColumns, rows : {{row} : row \in BatchRow}]]

(* A day is read once it has begun, at any later instant, or never.        *)
Reads == {read \in [0 .. Now - 1 -> (0 .. Now) \cup {NoFile}] :
             \A d \in DOMAIN read : read[d] # NoFile => read[d] >= d}

HistoryCalls == [kind : {"history"}, history : History, read : Reads]

Init == input = None

CallLookback == input = None /\ input' \in LookbackCalls
CallRange == input = None /\ input' \in RangeCalls
CallPath == input = None /\ input' \in PathCalls
CallGrainLookbacks == input = None /\ input' \in TablesCalls
CallMentions == input = None /\ input' \in MentionsCalls
CallDecode == input = None /\ input' \in ValueCalls
CallWrite == input = None /\ input' \in BatchCalls
CallMarts == input = None /\ input' \in HistoryCalls

Return == input # None /\ input' = None

Next ==
    \/ CallLookback \/ CallRange \/ CallPath \/ CallGrainLookbacks
    \/ CallMentions
    \/ CallDecode \/ CallWrite
    \/ CallMarts
    \/ Return

Spec == Init /\ [][Next]_input

-----------------------------------------------------------------------------
(* Properties: those of the modules, for the inputs above.                 *)

(* Lookback has no hole, ends with the window of now, and a backfill of    *)
(* the same dates has the same windows; and it is as long as each table    *)
(* asks for.                                                               *)
LookbackSuffices ==
    /\ input.kind = "lookback" =>
          /\ LookbackReachesNow(input.now, input.grain, input.n)
          /\ BackfillHasLookback(input.now, input.grain, input.n)
    /\ input.kind = "tables" => NoTableReadsLess(input.tables)

(* Every instant of a backfill's dates is in exactly one of its windows.   *)
RangePartitionsDates ==
    input.kind = "range" => RangeCoversDates(input.from, input.to, input.grain, input.t)

(* No two windows share a bronze file or a child workflow.                 *)
WindowsHaveTheirNames == input.kind = "path" => NamesTellWindowsApart(input.v, input.w)

(* A mention is counted as often as the text has it, under one key, and   *)
(* no issue mentions itself.                                               *)
MentionsAreCounted ==
    input.kind = "mentions" => MentionsAreInTheText(input.rows) /\ NoSelfMention(input.rows)

(* Values of the driver are stored as they were served, or refused; only   *)
(* decimals that are no float64 are rounded, to a nearest one.             *)
ValuesSurvive == input.kind = "value" => StoredAsServed(input.type, input.v)

(* What the Writer accepts, it can encode and a reader can tell apart.     *)
BatchesEncode == input.kind = "batch" => AcceptedIsEncodable(input.batch)

(* The history of an issue is made of intervals.                           *)
HistoryIsIntervals == input.kind = "history" => Scd2WellFormed(input.history, input.read)

(* The history shows each day as it was, and dim_issues agrees with it.    *)
HistoryIsTrue == input.kind = "history" => Scd2TellsTheDay(input.history, input.read)
=============================================================================
